---------------------------- MODULE Spec2Model ----------------------------
(***************************************************************************)
(* prysm colorimetry (src/prysm/colorimetry.py) and the util helpers its   *)
(* tests exercise (src/tests/test_util.py).                                *)
(*                                                                         *)
(* Every operation of the library is a function call: the state machine    *)
(* is a caller that, when idle, calls one operation on one input and       *)
(* records the outcome (the value returned or the exception raised), then  *)
(* returns to idle.  The state that survives a call is the module global   *)
(* `colour` (bound or not, decided at import) and the matplotlib axes.     *)
(*                                                                         *)
(* Numbers are IEEE-754 doubles in the code, and here: a number is a sign, *)
(* a significand of up to 53 bits and an exponent, or a signed zero, a      *)
(* signed infinity or nan, and every operation returns the double the       *)
(* hardware returns: the nearest to the real result, ties to even, with     *)
(* overflow to infinity and gradual underflow.                              *)
(***************************************************************************)
EXTENDS Integers, Sequences, FiniteSets, TLC

(* ----------------------------- bounds --------------------------------- *)
\* numerators of the input numbers range over -MaxVal..MaxVal
MaxVal == 3
\* denominators of the input numbers are 1, 2, .., 2^(MaxDen-1)
MaxDen == 2
\* a batch of points has 1..MaxBatch rows
MaxBatch == 3
\* a spectrum / a paired array has 1..MaxLen samples
MaxLen == 3
\* the values of a spectrum range over 0..MaxSpecVal
MaxSpecVal == 2
\* cie_1976_plot samples the diagram on a grid of 1..MaxSamples per side
MaxSamples == 2
\* at most MaxFigs figure/axis pairs are ever created
MaxFigs == 1
\* at most MaxDraws lines are drawn on one axis
MaxDraws == 2

(* --------------------- natural numbers of any size --------------------- *)
\* The significand of a double has 53 bits and a product of two has 106:
\* beyond TLC's 32-bit integers.  A natural number of any size is the
\* sequence of its base-32768 digits (15 bits each), least significant
\* first, without leading zeros: <<>> is 0 and <<1, 2>> is 2 * 32768 + 1.
\* The operations are written without recursion where there is a closed
\* form (carries, comparison), and evaluate their operands first: TLC
\* evaluates an operand where it is first used, and evaluations nested that
\* way exhaust its stack.  An intermediate result that is used more than
\* once is the parameter of an operator of its own.
Abs(n) == IF n < 0 THEN -n ELSE n

Sign(n) == IF n < 0 THEN -1 ELSE IF n = 0 THEN 0 ELSE 1

Pow2(k) == 2 ^ k

\* y, once x is evaluated
Strict(x, y) == IF x = x THEN y ELSE y

\* digit i of a, 0 beyond its length
Digit(a, i) == IF 1 <= i /\ i <= Len(a) THEN a[i] ELSE 0

\* a without its leading zero digits
NatTrim(a) ==
    SubSeq(a, 1, Cardinality({i \in 1..Len(a) : \E j \in i..Len(a) : a[j] # 0}))

RECURSIVE NatOf(_)
NatOf(n) == IF n = 0 THEN <<>> ELSE <<n % 32768>> \o NatOf(n \div 32768)

\* the number whose digit i is t[i], for t[i] in 0 .. 2 * 32768 - 2: a
\* carry enters digit i when a digit below overflows and every digit in
\* between is 32767
NatCarry(t) ==
    Strict(t,
        NatTrim([i \in 1..(Len(t) + 1) |->
            (Digit(t, i)
             + (IF \E j \in 1..(i - 1) :
                      t[j] >= 32768 /\ \A k \in (j + 1)..(i - 1) : t[k] = 32767
                THEN 1 ELSE 0)) % 32768]))

NatAdd(a, b) ==
    Strict(<<a, b>>,
        NatCarry([i \in 1..(IF Len(a) < Len(b) THEN Len(b) ELSE Len(a)) |->
                    Digit(a, i) + Digit(b, i)]))

\* a < b
NatLess(a, b) ==
    IF Len(a) # Len(b) THEN Len(a) < Len(b)
    ELSE \E i \in 1..Len(a) : a[i] < b[i] /\ \A k \in (i + 1)..Len(a) : a[k] = b[k]

\* a - b for a >= b: a borrow enters digit i when a digit below is short
\* and no digit in between has anything to give
NatSub(a, b) ==
    Strict(<<a, b>>,
        NatTrim([i \in 1..Len(a) |->
            (a[i] - Digit(b, i)
             - (IF \E j \in 1..(i - 1) :
                      a[j] < Digit(b, j) /\ \A k \in (j + 1)..(i - 1) : a[k] <= Digit(b, k)
                THEN 1 ELSE 0)) % 32768]))

\* a * k for one digit k
NatMulDigit(a, k) ==
    Strict(<<a, k>>,
        NatCarry([i \in 1..(Len(a) + 1) |->
                    ((Digit(a, i) * k) % 32768) + ((Digit(a, i - 1) * k) \div 32768)]))

\* acc * 32768^i + a * (digits 1..i of b)
RECURSIVE NatMulFrom(_, _, _, _)
NatMulFrom(a, b, i, acc) ==
    Strict(acc,
        IF i = 0 THEN acc
        ELSE NatMulFrom(a, b, i - 1,
                 NatAdd(NatMulDigit(a, b[i]), IF acc = <<>> THEN acc ELSE <<0>> \o acc)))

\* a * b, digit by digit of b from the most significant down
NatMul(a, b) == IF a = <<>> THEN a ELSE NatMulFrom(a, b, Len(b), <<>>)

\* the number of bits of n < 32768: 0 for 0, 3 for 5
BitLen(n) == Cardinality({k \in 0..14 : 2 ^ k <= n})

NatBitLen(a) == IF a = <<>> THEN 0 ELSE 15 * (Len(a) - 1) + BitLen(a[Len(a)])

\* a * 2^k
NatShl(a, k) ==
    IF a = <<>> THEN a
    ELSE [i \in 1..(k \div 15) |-> 0] \o NatMulDigit(a, Pow2(k % 15))

\* a div 2^k
NatShr(a, k) ==
    IF k \div 15 >= Len(a) THEN <<>>
    ELSE NatTrim([i \in 1..(Len(a) - (k \div 15)) |->
                    (a[i + (k \div 15)] \div Pow2(k % 15))
                    + (Digit(a, i + (k \div 15) + 1) % Pow2(k % 15)) * Pow2(15 - (k % 15))])

\* the estimate of a one-digit quotient from the two leading digits of the
\* dividend (top) and the leading digit d of the divisor
DigitEstimate(top, d) == IF top \div d > 32767 THEN 32767 ELSE top \div d

\* <<a div b, a mod b>> when the quotient is q0 - 1 or q0 - 2, p1 being
\* b * (q0 - 1)
NatDivModCorrect(a, b, q0, p1) ==
    IF ~NatLess(a, p1) THEN <<q0 - 1, NatSub(a, p1)>>
    ELSE <<q0 - 2, NatSub(a, NatSub(p1, b))>>

\* <<a div b, a mod b>> when the quotient is q0, q0 - 1 or q0 - 2, p0 being
\* b * q0
NatDivModTry(a, b, q0, p0) ==
    Strict(<<a, p0>>,
        IF ~NatLess(a, p0) THEN <<q0, NatSub(a, p0)>>
        ELSE NatDivModCorrect(a, b, q0, NatSub(p0, b)))

NatDivModEstimate(a, b, q0) == NatDivModTry(a, b, q0, NatMulDigit(b, q0))

\* acc with the quotient digit and the remainder r of one step
NatLongDivStep(r, acc) == <<NatTrim(<<r[1]>> \o acc[1]), r[2]>>

\* <<a div b, a mod b>> for a < 32768 * b and b with its leading digit at
\* least 16384: the quotient is one digit, estimated from the two leading
\* digits of a and the leading digit of b, which is at most 2 too much
NatDivModDigit(a, b) ==
    NatDivModEstimate(a, b,
        DigitEstimate(Digit(a, Len(b) + 1) * 32768 + Digit(a, Len(b)), b[Len(b)]))

\* long division for b with its leading digit at least 16384: acc is
\* <<quotient, remainder>> of the digits of a above digit i, and digits
\* i, i - 1, .., 1 are brought down in turn
RECURSIVE NatLongDiv(_, _, _, _)
NatLongDiv(a, b, i, acc) ==
    Strict(acc,
        IF i = 0 THEN acc
        ELSE NatLongDiv(a, b, i - 1,
                 NatLongDivStep(NatDivModDigit(NatTrim(<<a[i]>> \o acc[2]), b), acc)))

\* the number of digits of an to bring down
NatDivSteps(an, bn) == IF Len(an) < Len(bn) THEN 0 ELSE Len(an) - Len(bn) + 1

\* <<quotient, remainder / 2^sh>>
NatUnscale(qr, sh) == <<qr[1], NatShr(qr[2], sh)>>

\* an div bn and an mod bn for bn with its leading digit at least 16384:
\* the leading digits of an, one fewer than bn has, are below bn and start
\* as the remainder
NatDivModScaled(an, bn, sh) ==
    Strict(<<an, bn>>,
        NatUnscale(NatLongDiv(an, bn, NatDivSteps(an, bn),
                       <<(<<>>), SubSeq(an, NatDivSteps(an, bn) + 1, Len(an))>>), sh))

\* <<a div b, a mod b>> for b > 0: both are scaled by 2^sh to bring the
\* leading digit of b to 16384 or more
NatDivModBy(a, b, sh) == NatDivModScaled(NatShl(a, sh), NatShl(b, sh), sh)

NatDivMod(a, b) == NatDivModBy(a, b, 15 - BitLen(b[Len(b)]))

\* a mod 2^k # 0
NatLowBits(a, k) ==
    \/ \E i \in 1..Len(a) : i <= k \div 15 /\ a[i] # 0
    \/ (k \div 15 < Len(a) /\ a[(k \div 15) + 1] % Pow2(k % 15) # 0)

NatOdd(a) == a # <<>> /\ a[1] % 2 = 1

\* the number of trailing zero bits of n, 0 < n < 32768
TrailingZeros(n) == Cardinality({k \in 1..14 : n % (2 ^ k) = 0})

\* the number of trailing zero bits of a # 0
NatTrailingZeros(a) ==
    15 * Cardinality({i \in 1..Len(a) : \A j \in 1..i : a[j] = 0})
    + TrailingZeros(a[1 + Cardinality({i \in 1..Len(a) : \A j \in 1..i : a[j] = 0})])

\* s1 * n1 + s2 * n2 as a pair <<sign, magnitude>>; the sign of a zero sum
\* is 0
SignedSum(s1, n1, s2, n2) ==
    IF n1 = <<>> THEN (IF n2 = <<>> THEN <<0, n2>> ELSE <<s2, n2>>)
    ELSE IF n2 = <<>> THEN <<s1, n1>>
    ELSE IF s1 = s2 THEN <<s1, NatAdd(n1, n2)>>
    ELSE IF NatLess(n1, n2) THEN <<s2, NatSub(n2, n1)>>
    ELSE IF NatLess(n2, n1) THEN <<s1, NatSub(n1, n2)>>
    ELSE <<0, <<>> >>

(* -------------------- numbers (IEEE-754 binary64) ---------------------- *)
\* A number is <<c, s, m, e>>:
\*   <<"fin", s, m, e>>   the double s * m * 2^e, with the sign s in {1, -1},
\*                        m an odd natural number below 2^53 (digits as
\*                        above) and -1074 <= e; the zeros are
\*                        <<"fin", 1, <<>>, 0>> and <<"fin", -1, <<>>, 0>>
\*   <<"inf", s, <<>>, 0>> the infinity of sign s
\*   <<"nan", 1, <<>>, 0>> nan
Zero(s) == <<"fin", s, <<>>, 0>>

Inf(s) == <<"inf", s, <<>>, 0>>

NaN == <<"nan", 1, <<>>, 0>>

IsNaN(a) == a[1] = "nan"

IsInf(a) == a[1] = "inf"

IsFinite(a) == a[1] = "fin"

IsZero(a) == a[1] = "fin" /\ a[3] = <<>>

\* the double s * M * 2^E for M whose bits fit: overflow gives the infinity
Reduced(s, M, E, t) == <<"fin", s, NatShr(M, t), E + t>>

Normal(s, M, E) ==
    IF M = <<>> THEN Zero(s)
    ELSE IF E + NatBitLen(M) > 1024 THEN Inf(s)
    ELSE Reduced(s, M, E, NatTrailingZeros(M))

\* the exponent of the last bit kept of a number whose leading 53 bits end
\* at exponent q0
Quantum(q0) == IF q0 < -1074 THEN -1074 ELSE q0

\* s * Q * 2^q rounded: Q is the number cut at the last bit kept, half says
\* that the first bit cut is 1, sticky that a bit after it is
RoundUp(s, Q, q, half, sticky) ==
    Normal(s, IF half /\ (sticky \/ NatOdd(Q)) THEN NatAdd(Q, <<1>>) ELSE Q, q)

\* Q1 is the number cut after the first bit below the last bit kept
RoundHalf(s, Q1, q, sticky) == RoundUp(s, NatShr(Q1, 1), q, NatOdd(Q1), sticky)

\* the rounding to the last bit kept of exponent q
RoundTo(s, M, E, sticky, q) ==
    IF q <= E THEN Normal(s, M, E)
    ELSE RoundHalf(s, NatShr(M, q - E - 1), q, sticky \/ NatLowBits(M, q - E - 1))

\* The double nearest to s * (M + f) * 2^E, ties to the even significand
\* (the rounding of every IEEE operation): f is 0, or, when sticky, some
\* fraction strictly between 0 and 1 (M then has at least 55 bits).  The
\* result keeps 53 bits, fewer below 2^-1022 (subnormal: the last bit
\* is 2^-1074).
Round(s, M, E, sticky) == RoundTo(s, M, E, sticky, Quantum(E + NatBitLen(M) - 53))

\* the double of a Python int (|n| < 2^31 here: exact)
Num(n) == Normal(IF n < 0 THEN -1 ELSE 1, NatOf(Abs(n)), 0)

Neg(a) == IF IsNaN(a) THEN a ELSE <<a[1], -a[2], a[3], a[4]>>

AbsOf(a) == <<a[1], 1, a[3], a[4]>>

\* the exponent of the leading bit of a finite nonzero double
TopExp(a) == a[4] + NatBitLen(a[3]) - 1

\* a is finite and not zero
IsRegular(a) == a[1] = "fin" /\ a[3] # <<>>

\* the double of the signed sum r = <<sign, magnitude>> in units of 2^E
Summed(r, E) == IF r[2] = <<>> THEN Zero(1) ELSE Round(r[1], r[2], E, FALSE)

\* a + b for finite nonzero a and b, both being multiples of 2^E
Aligned(a, b, E) ==
    Summed(SignedSum(a[2], NatShl(a[3], a[4] - E), b[2], NatShl(b[3], b[4] - E)), E)

\* a + b : inf + (-inf) and anything with nan is nan; a zero sum is +0.0
\* unless both operands are -0.0; an operand below a quarter of the last
\* bit of the other does not change it
Add(a, b) ==
    IF IsRegular(a) /\ IsRegular(b)
    THEN IF TopExp(b) < TopExp(a) - 55 THEN a
         ELSE IF TopExp(a) < TopExp(b) - 55 THEN b
         ELSE Aligned(a, b, IF a[4] < b[4] THEN a[4] ELSE b[4])
    ELSE IF IsNaN(a) \/ IsNaN(b) THEN NaN
    ELSE IF IsInf(a) THEN (IF IsInf(b) /\ a[2] # b[2] THEN NaN ELSE a)
    ELSE IF IsInf(b) THEN b
    ELSE IF IsZero(a) THEN (IF IsZero(b) /\ a[2] # b[2] THEN Zero(1) ELSE b)
    ELSE a

Sub(a, b) == Add(a, Neg(b))

\* a * b : 0 * inf is nan; the sign of a zero product is the product of
\* the signs
Mul(a, b) ==
    IF IsFinite(a) /\ IsFinite(b)
    THEN Round(a[2] * b[2], NatMul(a[3], b[3]), a[4] + b[4], FALSE)
    ELSE IF IsNaN(a) \/ IsNaN(b) \/ IsZero(a) \/ IsZero(b) THEN NaN
    ELSE Inf(a[2] * b[2])

\* the quotient of two finite nonzero doubles: the significands are divided
\* to at least 55 bits, the remainder says whether bits are left
QuotientRounded(s, qr, E) == Strict(qr, Round(s, qr[1], E, qr[2] # <<>>))

QuotientBy(a, b, k) ==
    QuotientRounded(a[2] * b[2], NatDivMod(NatShl(a[3], k), b[3]), a[4] - b[4] - k)

Quotient(a, b) == QuotientBy(a, b, 55 + NatBitLen(b[3]) - NatBitLen(a[3]))

\* numpy true division: a nonzero number over zero is an infinity whose
\* sign is the product of the signs (with a RuntimeWarning, not an
\* exception), zero over zero is nan
DivMissingZeroCase(a, b) ==
    IF IsRegular(a) /\ IsRegular(b) THEN Quotient(a, b)
    ELSE IF IsNaN(a) \/ IsNaN(b) THEN NaN
    ELSE IF IsInf(a) THEN (IF IsInf(b) THEN NaN ELSE Inf(a[2] * b[2]))
    ELSE IF IsInf(b) THEN Zero(a[2] * b[2])
    ELSE IF IsZero(b) THEN NaN
    ELSE Zero(a[2] * b[2])

Div(a, b) ==
    IF IsRegular(a) /\ IsRegular(b) THEN Quotient(a, b)
    ELSE IF IsNaN(a) \/ IsNaN(b) THEN NaN
    ELSE IF IsInf(a) THEN (IF IsInf(b) THEN NaN ELSE Inf(a[2] * b[2]))
    ELSE IF IsInf(b) THEN Zero(a[2] * b[2])
    ELSE IF IsZero(b) THEN (IF IsZero(a) THEN NaN ELSE Inf(a[2] * b[2]))
    ELSE Zero(a[2] * b[2])

\* the double a decimal literal n/d denotes: the nearest one
Lit(n, d) == Div(Num(n), Num(d))

\* a > b for finite nonzero a and b, both being multiples of 2^E
GtAligned(a, b, E) ==
    SignedSum(a[2], NatShl(a[3], a[4] - E), -b[2], NatShl(b[3], b[4] - E))[1] = 1

\* a > b : every comparison with nan is false, +inf is above everything but
\* itself and nan, -inf above nothing, and -0.0 equals 0.0
Gt(a, b) ==
    IF IsRegular(a) /\ IsRegular(b)
    THEN IF a[2] # b[2] THEN a[2] = 1
         ELSE IF TopExp(a) # TopExp(b) THEN (TopExp(a) > TopExp(b)) = (a[2] = 1)
         ELSE GtAligned(a, b, IF a[4] < b[4] THEN a[4] ELSE b[4])
    ELSE IF IsNaN(a) \/ IsNaN(b) THEN FALSE
    ELSE IF IsInf(a) THEN a[2] = 1 /\ b # a
    ELSE IF IsInf(b) THEN b[2] = -1
    ELSE IF IsZero(a) THEN ~IsZero(b) /\ b[2] = -1
    ELSE a[2] = 1

(* ------------------------- arrays (numpy.ndarray) ---------------------- *)
\* an array is its shape and its elements in row-major order; a 0-d array
\* has shape <<>> and one element
RECURSIVE Prod(_)
Prod(s) == IF s = <<>> THEN 1 ELSE Head(s) * Prod(Tail(s))

Arr(shape, data) == [shape |-> shape, data |-> data]

Rank(A) == Len(A.shape)

Front(s) == SubSeq(s, 1, Len(s) - 1)

\* A[..., i] : component i (0-based) of the trailing axis
Idx(A, i) ==
    LET C  == A.shape[Len(A.shape)]
        sh == Front(A.shape)
    IN  Arr(sh, [k \in 1..Prod(sh) |-> A.data[(k - 1) * C + i + 1]])

\* A[i] : entry i (1-based) of the leading axis, as iteration / tuple
\* unpacking of an ndarray produces it
Row(A, i) ==
    LET sh == Tail(A.shape)
        P  == Prod(sh)
    IN  Arr(sh, SubSeq(A.data, (i - 1) * P + 1, i * P))

\* np.stack(arrs, axis=len(shape)) : a new trailing axis
StackLast(arrs) ==
    LET sh == arrs[1].shape
        m  == Len(arrs)
    IN  Arr(sh \o <<m>>,
            [k \in 1..(Prod(sh) * m) |->
                arrs[((k - 1) % m) + 1].data[((k - 1) \div m) + 1]])

\* element-wise binary operation on arrays of one shape
Map2(F(_, _), A, B) ==
    Strict(<<A, B>>, Arr(A.shape, [k \in 1..Len(A.data) |-> F(A.data[k], B.data[k])]))

\* element-wise operation with a scalar on the left: c op A
MapL(F(_, _), c, A) ==
    Strict(<<c, A>>, Arr(A.shape, [k \in 1..Len(A.data) |-> F(c, A.data[k])]))

\* element-wise operation with a scalar on the right: A op c
MapR(F(_, _), A, c) ==
    Strict(<<A, c>>, Arr(A.shape, [k \in 1..Len(A.data) |-> F(A.data[k], c)]))

\* Python's None
None == <<>>

\* the outcome of a call: the exception raised ("none" when it returns)
\* and the value returned
Ok(v) == [exc |-> "none", val |-> v]

Raise(e) == [exc |-> e, val |-> <<>>]

(* --------------------- colour space conversions ------------------------ *)
XYZ_to_xyY(XYZ) ==
    Strict(XYZ,
        LET X == Idx(XYZ, 0)
            Y == Idx(XYZ, 1)
            Z == Idx(XYZ, 2)
            x == Map2(Div, X, Map2(Add, Map2(Add, X, Y), Z))
            y == Map2(Div, Y, Map2(Add, Map2(Add, X, Y), Z))
        IN  StackLast(<<x, y, Y>>))

\* `x, y, Y = xyY` unpacks the LEADING axis: it needs exactly 3 entries
\* there, and takes them as x, y, Y
xyY_to_xy(xyY) ==
    IF xyY.shape[Len(xyY.shape)] = 2 THEN Ok(xyY)
    ELSE IF xyY.shape[1] # 3 THEN Raise("ValueError")
    ELSE Ok(StackLast(<<Row(xyY, 1), Row(xyY, 2)>>))

XYZ_to_xy(XYZ) == xyY_to_xy(XYZ_to_xyY(XYZ))

XYZ_to_uv(XYZ) ==
    Strict(XYZ,
        LET X == Idx(XYZ, 0)
            Y == Idx(XYZ, 1)
            Z == Idx(XYZ, 2)
            den == Map2(Add, Map2(Add, X, MapL(Mul, Num(15), Y)), MapL(Mul, Num(3), Z))
            u == Map2(Div, MapL(Mul, Num(4), X), den)
            v == Map2(Div, MapL(Mul, Num(9), Y), den)
        IN  StackLast(<<u, v>>))

xyY_to_XYZ_WithoutY(xyY) ==
    Strict(xyY,
        LET x == Idx(xyY, 0)
            y == Idx(xyY, 1)
            Y == Idx(xyY, 2)
            X == Map2(Div, x, y)
            Z == Map2(Div, Map2(Sub, MapL(Sub, Num(1), x), y), y)
        IN  StackLast(<<X, Y, Z>>))

\* `x, y, Y = xyY[..., 0], ...` : the trailing axis
xyY_to_XYZ(xyY) ==
    Strict(xyY,
        LET x == Idx(xyY, 0)
            y == Idx(xyY, 1)
            Y == Idx(xyY, 2)
            X == Map2(Div, Map2(Mul, x, Y), y)
            Z == Map2(Div, Map2(Mul, Map2(Sub, MapL(Sub, Num(1), x), y), Y), y)
        IN  StackLast(<<X, Y, Z>>))

\* Y is the fill value, 1 by default
xy_to_xyY(xy, Y) ==
    IF xy.shape[Len(xy.shape)] = 3 THEN xy
    ELSE LET x == Idx(xy, 0)
             y == Idx(xy, 1)
             ones == Arr(x.shape, [k \in 1..Len(x.data) |-> Num(1)])
         IN  StackLast(<<x, y, MapR(Mul, ones, Y)>>)

xy_to_XYZ(xy) == xyY_to_XYZ(xy_to_xyY(xy, Num(1)))

\* 24389 / 27
CIE_K == Div(Num(24389), Num(27))

\* 216 / 24389
CIE_E == Div(Num(216), Num(24389))

(* ---------------- pow(a, 3.0) of the C library -------------------------- *)
\* `** 3` on a float64 array is numpy's power loop, which calls pow(a, 3.0)
\* of the C library for every element.  pow is not correctly rounded: on
\* some a it returns a neighbour of the double nearest to the cube.  The
\* operators below follow the routine the library runs (GNU libc 2.36,
\* sysdeps/ieee754/dbl-64/e_pow.c, as built for processors with fused
\* multiply-add), operation for operation, with the library's tables:
\*   pow(a, 3)  = exp(3 * log(a)),  log(a) and 3 * log(a) kept as a sum of
\*                two doubles,
\*   log(a)     = k * ln2 + log(c) + log1p(z / c - 1)   for a = 2^k * z,
\*   exp(x)     = 2^(k / 128) * exp(r)                   for x = k * ln2 / 128 + r.

\* fma(a, b, c) adds the finite c to the product p = a * b, which is not
\* rounded and not zero, and rounds the sum.  An operand that lies wholly
\* more than 110 bits below the leading bit of the other one only says on
\* which side of it the sum lies: one bit far below stands for it.
FmaExp(p, c) ==
    IF c[3] = <<>> THEN p[4]
    ELSE IF TopExp(c) < TopExp(p) - 110 THEN TopExp(p) - 112
    ELSE IF TopExp(p) < TopExp(c) - 110 THEN TopExp(c) - 112
    ELSE IF p[4] < c[4] THEN p[4] ELSE c[4]

FmaLeft(p, c) ==
    IF c[3] # <<>> /\ TopExp(p) < TopExp(c) - 110
    THEN <<"fin", p[2], <<1>>, TopExp(c) - 112>>
    ELSE p

FmaRight(p, c) ==
    IF c[3] # <<>> /\ TopExp(c) < TopExp(p) - 110
    THEN <<"fin", c[2], <<1>>, TopExp(p) - 112>>
    ELSE c

\* p + c for the finite product p (not rounded) and the finite c; a zero
\* product leaves c, and 0.0 when c is the zero of the other sign
FmaExact(p, c) ==
    IF p[3] = <<>>
    THEN (IF c[3] = <<>> /\ c[2] # p[2] THEN Zero(1) ELSE c)
    ELSE Aligned(FmaLeft(p, c), FmaRight(p, c), FmaExp(p, c))

\* the fused multiply-add: a * b + c with one rounding, of the exact sum
Fma(a, b, c) ==
    IF IsFinite(a) /\ IsFinite(b)
    THEN IF IsFinite(c)
         THEN FmaExact(<<"fin", a[2] * b[2], NatMul(a[3], b[3]), a[4] + b[4]>>, c)
         ELSE c
    ELSE Add(Mul(a, b), c)

\* a * 2^n for a finite nonzero a, where that is a double of full precision
Scale2(a, n) == <<a[1], a[2], a[3], a[4] + n>>

TwoTo(n) == <<"fin", 1, <<1>>, n>>

\* the value of a natural number below 2^30
NatVal(a) == Digit(a, 1) + 32768 * Digit(a, 2)

\* the value of a double that is an integer below 2^30 in magnitude
IntVal(a) == IF a[3] = <<>> THEN 0 ELSE a[2] * NatVal(a[3]) * Pow2(a[4])

\* the leading 21 bits of the significand m (the implicit bit and the first
\* 20 bits of the fraction field)
TopBits(m) ==
    IF NatBitLen(m) >= 21 THEN NatVal(NatShr(m, NatBitLen(m) - 21))
    ELSE NatVal(NatShl(m, 21 - NatBitLen(m)))

\* OFF = 0x3fe6955500000000: a = 2^k * z with z in [OFF, 2 * OFF); the
\* first 20 fraction bits of OFF
PowLogOff == 431445

\* tmp = ix - OFF, by its fraction bits 51..32
PowLogTmp(a) == (TopBits(a[3]) - 1048576 - PowLogOff) % 1048576

\* k = (int64_t) tmp >> 52
PowLogK(a) ==
    TopExp(a) + (IF TopBits(a[3]) - 1048576 >= PowLogOff THEN 1 ELSE 0)

\* i = (tmp >> (52 - POW_LOG_TABLE_BITS)) % N
PowLogI(a) == PowLogTmp(a) \div 8192

\* __pow_log_data: <<ln2hi, ln2lo>>
Ln2 == <<<<"fin", 1, <<24391, 4287, 2839>>, -42>>, <<"fin", 1, <<30323, 29304, 15573, 15>>, -93>>>>

\* __pow_log_data.poly: <<A[0], .., A[6]>>, so that A[i] is PowLogA[i + 1]
PowLogA == <<
    <<"fin", -1, <<1>>, -1>>,
    <<"fin", -1, <<10923, 21845, 10922, 5>>, -48>>,
    <<"fin", 1, <<3, 0, 0, 64>>, -52>>,
    <<"fin", 1, <<10919, 6489, 13107, 102>>, -52>>,
    <<"fin", -1, <<21053, 21801, 10922, 85>>, -52>>,
    <<"fin", -1, <<17897, 13968, 9582, 146>>, -52>>,
    <<"fin", 1, <<16323, 5708, 174, 128>>, -52>>
    >>

\* __pow_log_data.tab: <<invc, logc, logctail>> of subinterval i = 0 .. 127
PowLogTab == <<
    <<<<"fin", 1, <<181>>, -7>>, <<"fin", -1, <<22329, 8380, 2838>>, -43>>, <<"fin", 1, <<28333, 4256, 21921, 1>>, -93>>>>,
    <<<<"fin", 1, <<45>>, -5>>, <<"fin", -1, <<27393, 28527, 2792>>, -43>>, <<"fin", -1, <<1977, 3470, 5281, 7>>, -93>>>>,
    <<<<"fin", 1, <<179>>, -7>>, <<"fin", -1, <<26795, 7621, 2747>>, -43>>, <<"fin", -1, <<20589, 11116, 2707, 155>>, -97>>>>,
    <<<<"fin", 1, <<89>>, -6>>, <<"fin", -1, <<26047, 11105, 2701>>, -43>>, <<"fin", -1, <<26581, 15712, 5010, 180>>, -101>>>>,
    <<<<"fin", 1, <<177>>, -7>>, <<"fin", -1, <<12015, 6117, 2655>>, -43>>, <<"fin", -1, <<18935, 6450, 877, 5>>, -94>>>>,
    <<<<"fin", 1, <<11>>, -3>>, <<"fin", -1, <<4323, 6332, 652>>, -41>>, <<"fin", 1, <<8499, 9254, 22575, 39>>, -96>>>>,
    <<<<"fin", 1, <<175>>, -7>>, <<"fin", -1, <<20693, 3105, 2562>>, -43>>, <<"fin", 1, <<1437, 28034, 1511, 113>>, -101>>>>,
    <<<<"fin", 1, <<87>>, -6>>, <<"fin", -1, <<11561, 4885, 2515>>, -43>>, <<"fin", 1, <<3235, 26725, 5688, 4>>, -92>>>>,
    <<<<"fin", 1, <<173>>, -7>>, <<"fin", -1, <<13617, 8054, 154>>, -39>>, <<"fin", 1, <<16457, 21701, 12955, 85>>, -96>>>>,
    <<<<"fin", 1, <<43>>, -5>>, <<"fin", -1, <<22281, 3627, 605>>, -41>>, <<"fin", 1, <<25979, 9837, 15759, 22>>, -94>>>>,
    <<<<"fin", 1, <<171>>, -7>>, <<"fin", -1, <<31697, 22148, 2372>>, -43>>, <<"fin", 1, <<12351, 28063, 10322, 174>>, -98>>>>,
    <<<<"fin", 1, <<171>>, -7>>, <<"fin", -1, <<31697, 22148, 2372>>, -43>>, <<"fin", 1, <<12351, 28063, 10322, 174>>, -98>>>>,
    <<<<"fin", 1, <<85>>, -6>>, <<"fin", -1, <<31215, 20606, 2324>>, -43>>, <<"fin", -1, <<27963, 10323, 13384, 89>>, -97>>>>,
    <<<<"fin", 1, <<169>>, -7>>, <<"fin", -1, <<11571, 9776, 2276>>, -43>>, <<"fin", -1, <<21761, 13427, 12220, 63>>, -96>>>>,
    <<<<"fin", 1, <<21>>, -4>>, <<"fin", -1, <<30069, 22314, 2227>>, -43>>, <<"fin", 1, <<10895, 18032, 18417, 15>>, -94>>>>,
    <<<<"fin", 1, <<167>>, -7>>, <<"fin", -1, <<13769, 25342, 2178>>, -43>>, <<"fin", -1, <<11571, 32005, 20873, 90>>, -96>>>>,
    <<<<"fin", 1, <<83>>, -6>>, <<"fin", -1, <<10041, 25756, 1064>>, -42>>, <<"fin", -1, <<391, 32500, 22492, 113>>, -98>>>>,
    <<<<"fin", 1, <<165>>, -7>>, <<"fin", -1, <<19277, 1202, 1040>>, -42>>, <<"fin", -1, <<11647, 15848, 23266, 129>>, -100>>>>,
    <<<<"fin", 1, <<165>>, -7>>, <<"fin", -1, <<19277, 1202, 1040>>, -42>>, <<"fin", -1, <<11647, 15848, 23266, 129>>, -100>>>>,
    <<<<"fin", 1, <<41>>, -5>>, <<"fin", -1, <<13689, 18627, 507>>, -41>>, <<"fin", 1, <<15495, 22322, 23722, 234>>, -99>>>>,
    <<<<"fin", 1, <<163>>, -7>>, <<"fin", -1, <<24291, 2780, 990>>, -42>>, <<"fin", 1, <<11209, 20035, 9911, 54>>, -95>>>>,
    <<<<"fin", 1, <<81>>, -6>>, <<"fin", -1, <<25263, 24813, 1929>>, -43>>, <<"fin", -1, <<32753, 27271, 19411, 11>>, -94>>>>,
    <<<<"fin", 1, <<161>>, -7>>, <<"fin", -1, <<11583, 24843, 469>>, -41>>, <<"fin", 1, <<26651, 30612, 27206, 141>>, -97>>>>,
    <<<<"fin", 1, <<5>>, -2>>, <<"fin", -1, <<15573, 32636, 913>>, -42>>, <<"fin", 1, <<24845, 13391, 31055, 46>>, -95>>>>,
    <<<<"fin", 1, <<5>>, -2>>, <<"fin", -1, <<15573, 32636, 913>>, -42>>, <<"fin", 1, <<24845, 13391, 31055, 46>>, -95>>>>,
    <<<<"fin", 1, <<159>>, -7>>, <<"fin", -1, <<17113, 20686, 1776>>, -43>>, <<"fin", 1, <<14223, 25367, 15040, 202>>, -98>>>>,
    <<<<"fin", 1, <<79>>, -6>>, <<"fin", -1, <<14851, 7754, 431>>, -41>>, <<"fin", 1, <<18483, 16333, 7366, 105>>, -103>>>>,
    <<<<"fin", 1, <<157>>, -7>>, <<"fin", -1, <<32299, 30595, 1672>>, -43>>, <<"fin", -1, <<24821, 23622, 6345, 86>>, -96>>>>,
    <<<<"fin", 1, <<157>>, -7>>, <<"fin", -1, <<32299, 30595, 1672>>, -43>>, <<"fin", -1, <<24821, 23622, 6345, 86>>, -96>>>>,
    <<<<"fin", 1, <<39>>, -5>>, <<"fin", -1, <<20293, 19283, 1620>>, -43>>, <<"fin", -1, <<21731, 2435, 18276, 214>>, -97>>>>,
    <<<<"fin", 1, <<155>>, -7>>, <<"fin", -1, <<21005, 29708, 1567>>, -43>>, <<"fin", 1, <<31241, 32695, 30461, 221>>, -97>>>>,
    <<<<"fin", 1, <<77>>, -6>>, <<"fin", -1, <<4231, 14480, 757>>, -42>>, <<"fin", 1, <<26955, 7316, 28104, 27>>, -94>>>>,
    <<<<"fin", 1, <<77>>, -6>>, <<"fin", -1, <<4231, 14480, 757>>, -42>>, <<"fin", 1, <<26955, 7316, 28104, 27>>, -94>>>>,
    <<<<"fin", 1, <<153>>, -7>>, <<"fin", -1, <<29085, 16892, 1461>>, -43>>, <<"fin", -1, <<28979, 9138, 18645, 67>>, -97>>>>,
    <<<<"fin", 1, <<19>>, -4>>, <<"fin", -1, <<2681, 26126, 1407>>, -43>>, <<"fin", -1, <<20537, 15904, 30990, 244>>, -98>>>>,
    <<<<"fin", 1, <<19>>, -4>>, <<"fin", -1, <<2681, 26126, 1407>>, -43>>, <<"fin", -1, <<20537, 15904, 30990, 244>>, -98>>>>,
    <<<<"fin", 1, <<151>>, -7>>, <<"fin", -1, <<14875, 23740, 1353>>, -43>>, <<"fin", -1, <<23439, 8206, 31278, 134>>, -97>>>>,
    <<<<"fin", 1, <<75>>, -6>>, <<"fin", -1, <<22935, 13485, 162>>, -40>>, <<"fin", 1, <<24079, 12442, 3265, 46>>, -96>>>>,
    <<<<"fin", 1, <<75>>, -6>>, <<"fin", -1, <<22935, 13485, 162>>, -40>>, <<"fin", 1, <<24079, 12442, 3265, 46>>, -96>>>>,
    <<<<"fin", 1, <<149>>, -7>>, <<"fin", -1, <<489, 16260, 1244>>, -43>>, <<"fin", 1, <<10781, 19751, 28940, 69>>, -99>>>>,
    <<<<"fin", 1, <<37>>, -5>>, <<"fin", -1, <<511, 10847, 1189>>, -43>>, <<"fin", -1, <<14465, 1500, 18072, 20>>, -94>>>>,
    <<<<"fin", 1, <<147>>, -7>>, <<"fin", -1, <<10619, 29357, 566>>, -42>>, <<"fin", -1, <<20939, 6161, 328, 122>>, -96>>>>,
    <<<<"fin", 1, <<147>>, -7>>, <<"fin", -1, <<10619, 29357, 566>>, -42>>, <<"fin", -1, <<20939, 6161, 328, 122>>, -96>>>>,
    <<<<"fin", 1, <<73>>, -6>>, <<"fin", -1, <<19721, 28623, 1077>>, -43>>, <<"fin", 1, <<5885, 17524, 27030, 52>>, -97>>>>,
    <<<<"fin", 1, <<73>>, -6>>, <<"fin", -1, <<19721, 28623, 1077>>, -43>>, <<"fin", 1, <<5885, 17524, 27030, 52>>, -97>>>>,
    <<<<"fin", 1, <<145>>, -7>>, <<"fin", -1, <<3807, 18707, 1021>>, -43>>, <<"fin", -1, <<6649, 23715, 27304, 85>>, -96>>>>,
    <<<<"fin", 1, <<9>>, -3>>, <<"fin", -1, <<28203, 19982, 120>>, -40>>, <<"fin", 1, <<15, 5496, 13356, 52>>, -95>>>>,
    <<<<"fin", 1, <<9>>, -3>>, <<"fin", -1, <<28203, 19982, 120>>, -40>>, <<"fin", 1, <<15, 5496, 13356, 52>>, -95>>>>,
    <<<<"fin", 1, <<143>>, -7>>, <<"fin", -1, <<15727, 29348, 453>>, -42>>, <<"fin", -1, <<24323, 22623, 6318, 116>>, -97>>>>,
    <<<<"fin", 1, <<71>>, -6>>, <<"fin", -1, <<21079, 9939, 850>>, -43>>, <<"fin", 1, <<30041, 31254, 7322, 21>>, -94>>>>,
    <<<<"fin", 1, <<71>>, -6>>, <<"fin", -1, <<21079, 9939, 850>>, -43>>, <<"fin", 1, <<30041, 31254, 7322, 21>>, -94>>>>,
    <<<<"fin", 1, <<141>>, -7>>, <<"fin", -1, <<12685, 13405, 792>>, -43>>, <<"fin", 1, <<27341, 21323, 15892, 19>>, -95>>>>,
    <<<<"fin", 1, <<141>>, -7>>, <<"fin", -1, <<12685, 13405, 792>>, -43>>, <<"fin", 1, <<27341, 21323, 15892, 19>>, -95>>>>,
    <<<<"fin", 1, <<35>>, -5>>, <<"fin", -1, <<22315, 3368, 734>>, -43>>, <<"fin", -1, <<14829, 18739, 11887, 90>>, -96>>>>,
    <<<<"fin", 1, <<139>>, -7>>, <<"fin", -1, <<30769, 12403, 675>>, -43>>, <<"fin", 1, <<24151, 17292, 2413, 248>>, -98>>>>,
    <<<<"fin", 1, <<139>>, -7>>, <<"fin", -1, <<30769, 12403, 675>>, -43>>, <<"fin", 1, <<24151, 17292, 2413, 248>>, -98>>>>,
    <<<<"fin", 1, <<69>>, -6>>, <<"fin", -1, <<12511, 7545, 616>>, -43>>, <<"fin", 1, <<5087, 6642, 31595, 226>>, -97>>>>,
    <<<<"fin", 1, <<69>>, -6>>, <<"fin", -1, <<12511, 7545, 616>>, -43>>, <<"fin", 1, <<5087, 6642, 31595, 226>>, -97>>>>,
    <<<<"fin", 1, <<137>>, -7>>, <<"fin", -1, <<23879, 5339, 139>>, -41>>, <<"fin", 1, <<8969, 27935, 29049, 163>>, -98>>>>,
    <<<<"fin", 1, <<17>>, -4>>, <<"fin", -1, <<35, 10435, 248>>, -42>>, <<"fin", 1, <<3729, 1645, 26234, 234>>, -97>>>>,
    <<<<"fin", 1, <<17>>, -4>>, <<"fin", -1, <<35, 10435, 248>>, -42>>, <<"fin", 1, <<3729, 1645, 26234, 234>>, -97>>>>,
    <<<<"fin", 1, <<135>>, -7>>, <<"fin", -1, <<25139, 2933, 218>>, -42>>, <<"fin", 1, <<7187, 29419, 634, 57>>, -96>>>>,
    <<<<"fin", 1, <<135>>, -7>>, <<"fin", -1, <<25139, 2933, 218>>, -42>>, <<"fin", 1, <<7187, 29419, 634, 57>>, -96>>>>,
    <<<<"fin", 1, <<67>>, -6>>, <<"fin", -1, <<22731, 8903, 375>>, -43>>, <<"fin", -1, <<20727, 13554, 30860, 115>>, -96>>>>,
    <<<<"fin", 1, <<67>>, -6>>, <<"fin", -1, <<22731, 8903, 375>>, -43>>, <<"fin", -1, <<20727, 13554, 30860, 115>>, -96>>>>,
    <<<<"fin", 1, <<133>>, -7>>, <<"fin", -1, <<26619, 29757, 313>>, -43>>, <<"fin", 1, <<32597, 29990, 1391, 84>>, -99>>>>,
    <<<<"fin", 1, <<133>>, -7>>, <<"fin", -1, <<26619, 29757, 313>>, -43>>, <<"fin", 1, <<32597, 29990, 1391, 84>>, -99>>>>,
    <<<<"fin", 1, <<33>>, -5>>, <<"fin", -1, <<25039, 24742, 15>>, -39>>, <<"fin", -1, <<633, 15935, 38, 51>>, -95>>>>,
    <<<<"fin", 1, <<33>>, -5>>, <<"fin", -1, <<25039, 24742, 15>>, -39>>, <<"fin", -1, <<633, 15935, 38, 51>>, -95>>>>,
    <<<<"fin", 1, <<131>>, -7>>, <<"fin", -1, <<4011, 25708, 189>>, -43>>, <<"fin", -1, <<9785, 10229, 13650, 196>>, -97>>>>,
    <<<<"fin", 1, <<65>>, -6>>, <<"fin", -1, <<11327, 24660, 31>>, -41>>, <<"fin", -1, <<27047, 31593, 7804, 62>>, -100>>>>,
    <<<<"fin", 1, <<65>>, -6>>, <<"fin", -1, <<11327, 24660, 31>>, -41>>, <<"fin", -1, <<27047, 31593, 7804, 62>>, -100>>>>,
    <<<<"fin", 1, <<129>>, -7>>, <<"fin", -1, <<9905, 31749, 7>>, -40>>, <<"fin", -1, <<4153, 1773, 25151, 51>>, -96>>>>,
    <<<<"fin", 1, <<129>>, -7>>, <<"fin", -1, <<9905, 31749, 7>>, -40>>, <<"fin", -1, <<4153, 1773, 25151, 51>>, -96>>>>,
    <<<<"fin", 1, <<1>>, 0>>, <<"fin", 1, <<>>, 0>>, <<"fin", 1, <<>>, 0>>>>,
    <<<<"fin", 1, <<1>>, 0>>, <<"fin", 1, <<>>, 0>>, <<"fin", 1, <<>>, 0>>>>,
    <<<<"fin", 1, <<127>>, -7>>, <<"fin", 1, <<30089, 8234, 64>>, -43>>, <<"fin", -1, <<9597, 26215, 25525, 16>>, -95>>>>,
    <<<<"fin", 1, <<63>>, -6>>, <<"fin", 1, <<12583, 345, 129>>, -43>>, <<"fin", -1, <<31721, 1762, 14518, 79>>, -96>>>>,
    <<<<"fin", 1, <<125>>, -7>>, <<"fin", 1, <<10441, 4682, 97>>, -42>>, <<"fin", -1, <<781, 6445, 8378, 53>>, -95>>>>,
    <<<<"fin", 1, <<31>>, -5>>, <<"fin", 1, <<10141, 2796, 260>>, -43>>, <<"fin", 1, <<22355, 14819, 18177, 136>>, -99>>>>,
    <<<<"fin", 1, <<123>>, -7>>, <<"fin", 1, <<27159, 26286, 40>>, -40>>, <<"fin", -1, <<16293, 23919, 2873, 28>>, -94>>>>,
    <<<<"fin", 1, <<61>>, -6>>, <<"fin", 1, <<21119, 9552, 393>>, -43>>, <<"fin", -1, <<9853, 8372, 26199, 203>>, -98>>>>,
    <<<<"fin", 1, <<121>>, -7>>, <<"fin", 1, <<14199, 23454, 460>>, -43>>, <<"fin", -1, <<10247, 4016, 9161, 211>>, -98>>>>,
    <<<<"fin", 1, <<241>>, -8>>, <<"fin", 1, <<27, 20878, 494>>, -43>>, <<"fin", -1, <<15227, 8082, 17657, 240>>, -99>>>>,
    <<<<"fin", 1, <<239>>, -8>>, <<"fin", 1, <<2611, 29629, 562>>, -43>>, <<"fin", -1, <<7835, 11291, 18805, 169>>, -97>>>>,
    <<<<"fin", 1, <<237>>, -8>>, <<"fin", 1, <<16015, 24410, 631>>, -43>>, <<"fin", 1, <<20183, 19382, 8570, 230>>, -97>>>>,
    <<<<"fin", 1, <<235>>, -8>>, <<"fin", 1, <<27837, 5540, 701>>, -43>>, <<"fin", -1, <<3727, 15453, 21004, 113>>, -96>>>>,
    <<<<"fin", 1, <<117>>, -7>>, <<"fin", 1, <<11179, 1688, 368>>, -42>>, <<"fin", 1, <<30361, 10653, 15643, 112>>, -100>>>>,
    <<<<"fin", 1, <<29>>, -5>>, <<"fin", 1, <<30053, 6898, 403>>, -42>>, <<"fin", 1, <<9197, 15037, 8888, 76>>, -96>>>>,
    <<<<"fin", 1, <<115>>, -7>>, <<"fin", 1, <<28011, 11400, 877>>, -43>>, <<"fin", -1, <<26853, 22510, 16896, 156>>, -98>>>>,
    <<<<"fin", 1, <<229>>, -8>>, <<"fin", 1, <<1777, 17088, 456>>, -42>>, <<"fin", 1, <<11475, 3253, 6983, 178>>, -97>>>>,
    <<<<"fin", 1, <<227>>, -8>>, <<"fin", 1, <<6225, 29592, 984>>, -43>>, <<"fin", -1, <<12847, 2814, 14349, 7>>, -92>>>>,
    <<<<"fin", 1, <<113>>, -7>>, <<"fin", 1, <<20191, 2323, 1021>>, -43>>, <<"fin", -1, <<2813, 8002, 21337, 169>>, -97>>>>,
    <<<<"fin", 1, <<7>>, -3>>, <<"fin", 1, <<4415, 30952, 546>>, -42>>, <<"fin", 1, <<1017, 20013, 24305, 71>>, -96>>>>,
    <<<<"fin", 1, <<223>>, -8>>, <<"fin", 1, <<25151, 17775, 1130>>, -43>>, <<"fin", 1, <<9805, 8732, 10126, 57>>, -95>>>>,
    <<<<"fin", 1, <<221>>, -8>>, <<"fin", 1, <<6413, 17796, 150>>, -40>>, <<"fin", 1, <<13473, 5891, 30131, 156>>, -99>>>>,
    <<<<"fin", 1, <<55>>, -6>>, <<"fin", 1, <<345, 16278, 1241>>, -43>>, <<"fin", 1, <<29321, 18070, 16032, 177>>, -103>>>>,
    <<<<"fin", 1, <<109>>, -7>>, <<"fin", 1, <<13115, 10160, 1316>>, -43>>, <<"fin", 1, <<14031, 21823, 16828, 21>>, -94>>>>,
    <<<<"fin", 1, <<217>>, -8>>, <<"fin", 1, <<18971, 31932, 1353>>, -43>>, <<"fin", 1, <<32199, 19154, 20387, 177>>, -97>>>>,
    <<<<"fin", 1, <<215>>, -8>>, <<"fin", 1, <<26817, 27095, 1429>>, -43>>, <<"fin", 1, <<1487, 19215, 26565, 25>>, -95>>>>,
    <<<<"fin", 1, <<107>>, -7>>, <<"fin", 1, <<14167, 593, 1468>>, -43>>, <<"fin", -1, <<8673, 19256, 17975, 168>>, -97>>>>,
    <<<<"fin", 1, <<213>>, -8>>, <<"fin", 1, <<21573, 12720, 1506>>, -43>>, <<"fin", -1, <<17157, 24866, 6209, 227>>, -98>>>>,
    <<<<"fin", 1, <<211>>, -8>>, <<"fin", 1, <<27449, 32095, 98>>, -39>>, <<"fin", -1, <<11473, 21970, 30034, 185>>, -99>>>>,
    <<<<"fin", 1, <<105>>, -7>>, <<"fin", 1, <<23799, 13493, 101>>, -39>>, <<"fin", 1, <<32623, 12609, 18593, 191>>, -99>>>>,
    <<<<"fin", 1, <<13>>, -4>>, <<"fin", 1, <<25687, 16083, 850>>, -42>>, <<"fin", -1, <<8553, 8364, 18701, 195>>, -97>>>>,
    <<<<"fin", 1, <<207>>, -8>>, <<"fin", 1, <<30141, 15114, 1740>>, -43>>, <<"fin", -1, <<28885, 20140, 27418, 112>>, -98>>>>,
    <<<<"fin", 1, <<103>>, -7>>, <<"fin", 1, <<16863, 2163, 890>>, -42>>, <<"fin", -1, <<2395, 22868, 6024, 117>>, -96>>>>,
    <<<<"fin", 1, <<205>>, -8>>, <<"fin", 1, <<28417, 32632, 1819>>, -43>>, <<"fin", -1, <<5609, 17814, 22757, 71>>, -99>>>>,
    <<<<"fin", 1, <<203>>, -8>>, <<"fin", 1, <<3401, 10166, 1900>>, -43>>, <<"fin", -1, <<12341, 28203, 31915, 215>>, -97>>>>,
    <<<<"fin", 1, <<101>>, -7>>, <<"fin", 1, <<32369, 25055, 1940>>, -43>>, <<"fin", 1, <<8003, 27656, 1161, 9>>, -99>>>>,
    <<<<"fin", 1, <<201>>, -8>>, <<"fin", 1, <<25821, 27483, 123>>, -39>>, <<"fin", -1, <<3601, 19319, 1109, 209>>, -103>>>>,
    <<<<"fin", 1, <<25>>, -5>>, <<"fin", 1, <<19259, 9101, 2022>>, -43>>, <<"fin", 1, <<19955, 6465, 29435, 13>>, -94>>>>,
    <<<<"fin", 1, <<99>>, -7>>, <<"fin", 1, <<2475, 19992, 2104>>, -43>>, <<"fin", 1, <<20113, 11738, 29548, 196>>, -100>>>>,
    <<<<"fin", 1, <<197>>, -8>>, <<"fin", 1, <<15115, 17110, 536>>, -41>>, <<"fin", 1, <<27369, 11385, 25132, 184>>, -97>>>>,
    <<<<"fin", 1, <<49>>, -6>>, <<"fin", 1, <<17661, 25504, 2187>>, -43>>, <<"fin", -1, <<31751, 12754, 8462, 56>>, -95>>>>,
    <<<<"fin", 1, <<195>>, -8>>, <<"fin", 1, <<30111, 22322, 2229>>, -43>>, <<"fin", 1, <<5761, 28490, 27447, 220>>, -97>>>>,
    <<<<"fin", 1, <<97>>, -7>>, <<"fin", 1, <<27469, 26200, 2271>>, -43>>, <<"fin", 1, <<15799, 8847, 7093, 229>>, -97>>>>,
    <<<<"fin", 1, <<193>>, -8>>, <<"fin", 1, <<8663, 4443, 2314>>, -43>>, <<"fin", 1, <<23925, 14918, 4029, 106>>, -98>>>>,
    <<<<"fin", 1, <<191>>, -8>>, <<"fin", 1, <<19913, 24079, 1199>>, -42>>, <<"fin", 1, <<317, 9512, 7418, 53>>, -95>>>>,
    <<<<"fin", 1, <<95>>, -7>>, <<"fin", 1, <<3739, 20254, 610>>, -41>>, <<"fin", -1, <<10135, 13512, 28989, 24>>, -94>>>>,
    <<<<"fin", 1, <<189>>, -8>>, <<"fin", 1, <<27617, 27886, 1242>>, -42>>, <<"fin", 1, <<12025, 27708, 14182, 17>>, -95>>>>,
    <<<<"fin", 1, <<47>>, -6>>, <<"fin", 1, <<29491, 19022, 1264>>, -42>>, <<"fin", 1, <<12119, 23299, 15188, 48>>, -96>>>>,
    <<<<"fin", 1, <<187>>, -8>>, <<"fin", 1, <<31421, 27912, 2572>>, -43>>, <<"fin", 1, <<24733, 22817, 4315, 199>>, -99>>>>,
    <<<<"fin", 1, <<93>>, -7>>, <<"fin", 1, <<20025, 25456, 2616>>, -43>>, <<"fin", -1, <<22133, 4815, 7992, 249>>, -97>>>>,
    <<<<"fin", 1, <<185>>, -8>>, <<"fin", 1, <<24947, 15379, 1330>>, -42>>, <<"fin", -1, <<13865, 3461, 8329, 60>>, -95>>>>,
    <<<<"fin", 1, <<23>>, -5>>, <<"fin", 1, <<14789, 10976, 676>>, -41>>, <<"fin", 1, <<18265, 713, 31170, 245>>, -97>>>>,
    <<<<"fin", 1, <<183>>, -8>>, <<"fin", 1, <<15501, 32490, 1374>>, -42>>, <<"fin", 1, <<16623, 23738, 14263, 253>>, -98>>>>,
    <<<<"fin", 1, <<91>>, -7>>, <<"fin", 1, <<31435, 23517, 698>>, -41>>, <<"fin", -1, <<6519, 1106, 2858, 52>>, -97>>>>
    >>

\* __exp_data: invln2N, shift, <<negln2hiN, negln2loN>>
InvLn2N == <<"fin", 1, <<16767, 25899, 10894, 92>>, -44>>

Shift == <<"fin", 1, <<3>>, 51>>

NegLn2N == <<<<"fin", -1, <<32637, 11842, 44>>, -43>>, <<"fin", -1, <<7581, 15518, 28469, 115>>, -98>>>>

\* __exp_data.poly: <<C2, C3, C4, C5>>
ExpC == <<
    <<"fin", 1, <<32189, 32767, 32767, 255>>, -54>>,
    <<"fin", 1, <<21775, 10922, 21845, 42>>, -53>>,
    <<"fin", 1, <<11153, 7726, 21847, 170>>, -57>>,
    <<"fin", 1, <<20503, 20297, 17477, 136>>, -59>>
    >>

\* __exp_data.tab: <<tail, scale>> of j = 0 .. 127, where 2^(j / 128) is
\* scale * (1 + tail); scale is asdouble(T[2 * j + 1] + (j << 45))
ExpTab == <<
    <<<<"fin", 1, <<>>, 0>>, <<"fin", 1, <<1>>, 0>>>>,
    <<<<"fin", 1, <<24503, 6792, 30366, 108>>, -105>>, <<"fin", 1, <<13109, 21494, 22774, 128>>, -52>>>>,
    <<<<"fin", -1, <<23645, 14769, 78, 139>>, -108>>, <<"fin", 1, <<97, 31983, 12904, 129>>, -52>>>>,
    <<<<"fin", -1, <<26321, 8462, 31208, 130>>, -106>>, <<"fin", 1, <<32645, 20700, 3159, 130>>, -52>>>>,
    <<<<"fin", 1, <<30227, 27343, 18760, 230>>, -107>>, <<"fin", 1, <<24925, 27018, 22960, 32>>, -50>>>>,
    <<<<"fin", -1, <<18301, 9209, 7424, 111>>, -106>>, <<"fin", 1, <<31599, 10717, 24790, 65>>, -51>>>>,
    <<<<"fin", 1, <<18529, 17357, 23865, 135>>, -109>>, <<"fin", 1, <<13177, 17949, 17314, 16>>, -49>>>>,
    <<<<"fin", 1, <<21401, 13927, 3985, 133>>, -106>>, <<"fin", 1, <<29571, 5517, 30971, 132>>, -52>>>>,
    <<<<"fin", 1, <<31597, 15110, 27289, 188>>, -106>>, <<"fin", 1, <<2319, 23027, 21857, 133>>, -52>>>>,
    <<<<"fin", 1, <<31743, 18814, 13594, 61>>, -105>>, <<"fin", 1, <<18423, 22244, 12872, 134>>, -52>>>>,
    <<<<"fin", 1, <<7377, 24671, 30965, 245>>, -112>>, <<"fin", 1, <<26833, 13011, 18392, 67>>, -51>>>>,
    <<<<"fin", -1, <<28171, 4896, 3282, 208>>, -109>>, <<"fin", 1, <<21275, 24573, 28058, 135>>, -52>>>>,
    <<<<"fin", -1, <<24199, 10799, 11428, 85>>, -105>>, <<"fin", 1, <<23377, 8228, 19463, 136>>, -52>>>>,
    <<<<"fin", -1, <<27221, 6301, 958, 132>>, -110>>, <<"fin", 1, <<3187, 24630, 10941, 34>>, -50>>>>,
    <<<<"fin", -1, <<31243, 14805, 4679, 71>>, -105>>, <<"fin", 1, <<18799, 10986, 10323, 4>>, -47>>>>,
    <<<<"fin", 1, <<21935, 21176, 20367, 134>>, -107>>, <<"fin", 1, <<3665, 4427, 27235, 138>>, -52>>>>,
    <<<<"fin", -1, <<12905, 31401, 3466, 16>>, -104>>, <<"fin", 1, <<20859, 30970, 19168, 139>>, -52>>>>,
    <<<<"fin", -1, <<12861, 11196, 32705, 248>>, -107>>, <<"fin", 1, <<18165, 14476, 5618, 70>>, -51>>>>,
    <<<<"fin", 1, <<21439, 32294, 9776, 220>>, -107>>, <<"fin", 1, <<19317, 22239, 3439, 141>>, -52>>>>,
    <<<<"fin", -1, <<30099, 30225, 13112, 91>>, -105>>, <<"fin", 1, <<5941, 16898, 15328, 35>>, -50>>>>,
    <<<<"fin", 1, <<20859, 29667, 23966, 6>>, -101>>, <<"fin", 1, <<23765, 12648, 10510, 71>>, -51>>>>,
    <<<<"fin", -1, <<14493, 5900, 7691, 255>>, -107>>, <<"fin", 1, <<22813, 17913, 13632, 143>>, -52>>>>,
    <<<<"fin", 1, <<17293, 2381, 15621, 211>>, -107>>, <<"fin", 1, <<18027, 2146, 3191, 72>>, -51>>>>,
    <<<<"fin", 1, <<1149, 25032, 26646, 131>>, -107>>, <<"fin", 1, <<28235, 4477, 16019, 72>>, -51>>>>,
    <<<<"fin", 1, <<10789, 29140, 3837, 45>>, -104>>, <<"fin", 1, <<11335, 7069, 7229, 18>>, -49>>>>,
    <<<<"fin", 1, <<18557, 25832, 30819, 186>>, -107>>, <<"fin", 1, <<9791, 8037, 18233, 146>>, -52>>>>,
    <<<<"fin", 1, <<29689, 6175, 3671, 65>>, -106>>, <<"fin", 1, <<31965, 19396, 11541, 147>>, -52>>>>,
    <<<<"fin", -1, <<1071, 16241, 28918, 90>>, -105>>, <<"fin", 1, <<25473, 17386, 4991, 148>>, -52>>>>,
    <<<<"fin", 1, <<11057, 23059, 24453, 151>>, -107>>, <<"fin", 1, <<24289, 27199, 31351, 148>>, -52>>>>,
    <<<<"fin", -1, <<24573, 6767, 17206, 116>>, -111>>, <<"fin", 1, <<11673, 31259, 11807, 9>>, -48>>>>,
    <<<<"fin", 1, <<685, 14598, 14210, 54>>, -105>>, <<"fin", 1, <<779, 19912, 18966, 150>>, -52>>>>,
    <<<<"fin", 1, <<19343, 5021, 21066, 240>>, -109>>, <<"fin", 1, <<6059, 10558, 22879, 75>>, -51>>>>,
    <<<<"fin", 1, <<21979, 19888, 6890, 77>>, -106>>, <<"fin", 1, <<14101, 5219, 7160, 152>>, -52>>>>,
    <<<<"fin", 1, <<7443, 29014, 16897, 44>>, -105>>, <<"fin", 1, <<22577, 30873, 1475, 153>>, -52>>>>,
    <<<<"fin", 1, <<31781, 24019, 14962, 127>>, -106>>, <<"fin", 1, <<5887, 25800, 28706, 153>>, -52>>>>,
    <<<<"fin", -1, <<5825, 7623, 9088, 45>>, -105>>, <<"fin", 1, <<8177, 16165, 23317, 154>>, -52>>>>,
    <<<<"fin", -1, <<27149, 29458, 9590, 18>>, -103>>, <<"fin", 1, <<10699, 28277, 18076, 155>>, -52>>>>,
    <<<<"fin", -1, <<5831, 6993, 4080, 100>>, -105>>, <<"fin", 1, <<27699, 27909, 6492, 78>>, -51>>>>,
    <<<<"fin", -1, <<7017, 16020, 9168, 71>>, -107>>, <<"fin", 1, <<8183, 27083, 8044, 157>>, -52>>>>,
    <<<<"fin", -1, <<6933, 26524, 25702, 200>>, -106>>, <<"fin", 1, <<10469, 1575, 3255, 158>>, -52>>>>,
    <<<<"fin", 1, <<19565, 20052, 32034, 172>>, -107>>, <<"fin", 1, <<6673, 19474, 15692, 79>>, -51>>>>,
    <<<<"fin", -1, <<13509, 31272, 9408, 76>>, -105>>, <<"fin", 1, <<8199, 598, 31301, 39>>, -50>>>>,
    <<<<"fin", -1, <<2395, 4143, 7741, 197>>, -110>>, <<"fin", 1, <<5909, 8695, 11284, 80>>, -51>>>>,
    <<<<"fin", -1, <<6683, 20115, 12909, 225>>, -108>>, <<"fin", 1, <<10391, 12961, 18391, 161>>, -52>>>>,
    <<<<"fin", 1, <<11281, 16773, 4021, 155>>, -111>>, <<"fin", 1, <<2349, 16579, 14369, 162>>, -52>>>>,
    <<<<"fin", 1, <<25839, 30220, 6180, 179>>, -106>>, <<"fin", 1, <<87, 23098, 10503, 163>>, -52>>>>,
    <<<<"fin", 1, <<889, 13634, 13191, 246>>, -109>>, <<"fin", 1, <<5069, 22200, 8616, 10>>, -48>>>>,
    <<<<"fin", 1, <<28963, 18401, 32739, 9>>, -102>>, <<"fin", 1, <<27119, 28887, 18005, 82>>, -51>>>>,
    <<<<"fin", 1, <<11003, 22383, 9267, 11>>, -104>>, <<"fin", 1, <<10791, 10860, 32619, 165>>, -52>>>>,
    <<<<"fin", 1, <<24695, 22185, 30455, 152>>, -106>>, <<"fin", 1, <<23821, 13307, 29386, 166>>, -52>>>>,
    <<<<"fin", -1, <<20935, 113, 10344, 126>>, -106>>, <<"fin", 1, <<11431, 27962, 26313, 167>>, -52>>>>,
    <<<<"fin", -1, <<9033, 14631, 31539, 190>>, -107>>, <<"fin", 1, <<13089, 8911, 11701, 84>>, -51>>>>,
    <<<<"fin", -1, <<14431, 31262, 31514, 198>>, -108>>, <<"fin", 1, <<10177, 22173, 26710, 84>>, -51>>>>,
    <<<<"fin", -1, <<11899, 27771, 9357, 88>>, -106>>, <<"fin", 1, <<4623, 5307, 18067, 170>>, -52>>>>,
    <<<<"fin", 1, <<27591, 6397, 27146, 76>>, -105>>, <<"fin", 1, <<5101, 14005, 24206, 85>>, -51>>>>,
    <<<<"fin", 1, <<6917, 24341, 25308, 220>>, -108>>, <<"fin", 1, <<18429, 10543, 13387, 172>>, -52>>>>,
    <<<<"fin", 1, <<21513, 17464, 3975, 131>>, -106>>, <<"fin", 1, <<21545, 14992, 11295, 173>>, -52>>>>,
    <<<<"fin", 1, <<25461, 20505, 3850, 83>>, -111>>, <<"fin", 1, <<18103, 5298, 9370, 174>>, -52>>>>,
    <<<<"fin", 1, <<16437, 22217, 19352, 161>>, -106>>, <<"fin", 1, <<9257, 17771, 29623, 21>>, -49>>>>,
    <<<<"fin", -1, <<30367, 17202, 4393, 231>>, -107>>, <<"fin", 1, <<23561, 29421, 6022, 176>>, -52>>>>,
    <<<<"fin", -1, <<27061, 20219, 6626, 28>>, -104>>, <<"fin", 1, <<21893, 24692, 4602, 177>>, -52>>>>,
    <<<<"fin", -1, <<29911, 2347, 9969, 81>>, -106>>, <<"fin", 1, <<26137, 25420, 18536, 5>>, -47>>>>,
    <<<<"fin", -1, <<19211, 24085, 26478, 19>>, -103>>, <<"fin", 1, <<8741, 1194, 2274, 179>>, -52>>>>,
    <<<<"fin", 1, <<1625, 16447, 4266, 46>>, -108>>, <<"fin", 1, <<10611, 10393, 1367, 180>>, -52>>>>,
    <<<<"fin", -1, <<17477, 28631, 23031, 19>>, -103>>, <<"fin", 1, <<15309, 19710, 633, 181>>, -52>>>>,
    <<<<"fin", -1, <<23745, 1844, 9563, 104>>, -108>>, <<"fin", 1, <<23231, 27159, 73, 182>>, -52>>>>,
    <<<<"fin", -1, <<21751, 14445, 20447, 77>>, -108>>, <<"fin", 1, <<6703, 30922, 32456, 182>>, -52>>>>,
    <<<<"fin", -1, <<2129, 10689, 28917, 134>>, -107>>, <<"fin", 1, <<25889, 31912, 32637, 45>>, -50>>>>,
    <<<<"fin", -1, <<16079, 31924, 32145, 192>>, -108>>, <<"fin", 1, <<6109, 29814, 8053, 46>>, -50>>>>,
    <<<<"fin", -1, <<14299, 22545, 15250, 11>>, -103>>, <<"fin", 1, <<24669, 9298, 16282, 46>>, -50>>>>,
    <<<<"fin", -1, <<29509, 7765, 12900, 88>>, -106>>, <<"fin", 1, <<26569, 11396, 32685, 186>>, -52>>>>,
    <<<<"fin", 1, <<21715, 15379, 29485, 132>>, -106>>, <<"fin", 1, <<23871, 8124, 421, 188>>, -52>>>>,
    <<<<"fin", -1, <<9501, 29339, 19314, 217>>, -108>>, <<"fin", 1, <<391, 26582, 1105, 189>>, -52>>>>,
    <<<<"fin", 1, <<16491, 10447, 13301, 167>>, -106>>, <<"fin", 1, <<24729, 304, 986, 95>>, -51>>>>,
    <<<<"fin", 1, <<27733, 22444, 12166, 175>>, -109>>, <<"fin", 1, <<10033, 14031, 17894, 95>>, -51>>>>,
    <<<<"fin", -1, <<26529, 12211, 17290, 98>>, -106>>, <<"fin", 1, <<3337, 21566, 2126, 96>>, -51>>>>,
    <<<<"fin", -1, <<19917, 30877, 27062, 38>>, -104>>, <<"fin", 1, <<19987, 12953, 5670, 193>>, -52>>>>,
    <<<<"fin", -1, <<32655, 14873, 15624, 65>>, -106>>, <<"fin", 1, <<18349, 3143, 7273, 194>>, -52>>>>,
    <<<<"fin", -1, <<11191, 22642, 10401, 83>>, -105>>, <<"fin", 1, <<4845, 13961, 9062, 195>>, -52>>>>,
    <<<<"fin", 1, <<1861, 26459, 8538>>, -97>>, <<"fin", 1, <<26265, 13076, 11039, 196>>, -52>>>>,
    <<<<"fin", 1, <<15021, 24824, 14127, 59>>, -105>>, <<"fin", 1, <<8411, 1109, 13205, 197>>, -52>>>>,
    <<<<"fin", -1, <<26623, 14731, 22914, 173>>, -109>>, <<"fin", 1, <<20771, 2906, 20274, 49>>, -50>>>>,
    <<<<"fin", 1, <<22481, 11513, 30339, 55>>, -106>>, <<"fin", 1, <<15259, 6421, 25437, 99>>, -51>>>>,
    <<<<"fin", -1, <<15747, 20028, 9342, 152>>, -106>>, <<"fin", 1, <<32739, 2961, 10422, 100>>, -51>>>>,
    <<<<"fin", -1, <<7721, 5848, 9954, 237>>, -110>>, <<"fin", 1, <<17893, 24987, 23774, 201>>, -52>>>>,
    <<<<"fin", -1, <<14681, 31009, 4069, 225>>, -109>>, <<"fin", 1, <<21007, 6032, 26899, 202>>, -52>>>>,
    <<<<"fin", -1, <<31957, 8948, 1670, 73>>, -105>>, <<"fin", 1, <<25829, 21499, 24416, 12>>, -48>>>>,
    <<<<"fin", -1, <<3659, 11981, 10675, 174>>, -107>>, <<"fin", 1, <<989, 28874, 16866, 102>>, -51>>>>,
    <<<<"fin", 1, <<20007, 22307, 16368, 141>>, -108>>, <<"fin", 1, <<16137, 12372, 28964, 12>>, -48>>>>,
    <<<<"fin", 1, <<29627, 16916, 18647, 238>>, -109>>, <<"fin", 1, <<8995, 13254, 8588, 207>>, -52>>>>,
    <<<<"fin", -1, <<8803, 17604, 5136, 190>>, -107>>, <<"fin", 1, <<25957, 30395, 12697, 208>>, -52>>>>,
    <<<<"fin", 1, <<12757, 18372, 29211, 216>>, -107>>, <<"fin", 1, <<11571, 22676, 17007, 209>>, -52>>>>,
    <<<<"fin", -1, <<15125, 10105, 28487, 141>>, -106>>, <<"fin", 1, <<9565, 25724, 21518, 210>>, -52>>>>,
    <<<<"fin", 1, <<6377, 7406, 6243, 67>>, -105>>, <<"fin", 1, <<5739, 1228, 15567, 26>>, -49>>>>,
    <<<<"fin", 1, <<23219, 23782, 9745, 163>>, -107>>, <<"fin", 1, <<32191, 10995, 31149, 212>>, -52>>>>,
    <<<<"fin", -1, <<10093, 19399, 24525, 37>>, -105>>, <<"fin", 1, <<31165, 16339, 1751, 107>>, -51>>>>,
    <<<<"fin", 1, <<13191, 9622, 27102, 224>>, -107>>, <<"fin", 1, <<21421, 12981, 8830, 215>>, -52>>>>,
    <<<<"fin", -1, <<27901, 19153, 30494, 65>>, -105>>, <<"fin", 1, <<23347, 10637, 7182, 108>>, -51>>>>,
    <<<<"fin", -1, <<22365, 22236, 1970, 87>>, -109>>, <<"fin", 1, <<5627, 28830, 20106, 217>>, -52>>>>,
    <<<<"fin", -1, <<7129, 29165, 2624, 2>>, -100>>, <<"fin", 1, <<11421, 3557, 13029, 109>>, -51>>>>,
    <<<<"fin", -1, <<25805, 7254, 22260, 49>>, -107>>, <<"fin", 1, <<24135, 26102, 32219, 219>>, -52>>>>,
    <<<<"fin", -1, <<2613, 22193, 15241, 143>>, -106>>, <<"fin", 1, <<805, 12449, 19296, 110>>, -51>>>>,
    <<<<"fin", 1, <<24013, 5311, 32604, 167>>, -108>>, <<"fin", 1, <<24809, 4171, 6205, 111>>, -51>>>>,
    <<<<"fin", -1, <<9771, 32073, 15867, 35>>, -104>>, <<"fin", 1, <<7689, 14254, 19209, 223>>, -52>>>>,
    <<<<"fin", 1, <<3251, 24926, 15032, 155>>, -108>>, <<"fin", 1, <<21671, 28354, 6555, 56>>, -50>>>>,
    <<<<"fin", 1, <<32613, 11855, 25394, 61>>, -105>>, <<"fin", 1, <<26685, 24575, 342, 113>>, -51>>>>,
    <<<<"fin", 1, <<22123, 26756, 24719, 41>>, -105>>, <<"fin", 1, <<20811, 23727, 8132, 227>>, -52>>>>,
    <<<<"fin", 1, <<6759, 28828, 14012, 158>>, -109>>, <<"fin", 1, <<26549, 10253, 15798, 228>>, -52>>>>,
    <<<<"fin", 1, <<17197, 6948, 13718, 23>>, -106>>, <<"fin", 1, <<4201, 14815, 23683, 229>>, -52>>>>,
    <<<<"fin", -1, <<23273, 972, 5169, 66>>, -106>>, <<"fin", 1, <<25085, 21853, 15894, 115>>, -51>>>>,
    <<<<"fin", -1, <<31343, 32767, 13684, 253>>, -107>>, <<"fin", 1, <<25183, 9475, 1837, 58>>, -50>>>>,
    <<<<"fin", -1, <<10569, 28907, 14008, 128>>, -106>>, <<"fin", 1, <<17657, 2061, 24334, 116>>, -51>>>>,
    <<<<"fin", 1, <<1959, 19578, 3606, 165>>, -108>>, <<"fin", 1, <<9351, 14839, 24675, 234>>, -52>>>>,
    <<<<"fin", -1, <<8719, 16512, 18040, 148>>, -107>>, <<"fin", 1, <<12403, 17842, 16497, 29>>, -49>>>>,
    <<<<"fin", 1, <<25771, 27360, 23120, 60>>, -105>>, <<"fin", 1, <<12933, 1974, 10136, 237>>, -52>>>>,
    <<<<"fin", 1, <<27467, 22530, 26982, 161>>, -107>>, <<"fin", 1, <<3491, 7984, 14948, 7>>, -47>>>>,
    <<<<"fin", -1, <<15903, 3944, 21636, 150>>, -107>>, <<"fin", 1, <<7007, 26359, 29276, 239>>, -52>>>>,
    <<<<"fin", -1, <<3529, 30350, 10980, 201>>, -107>>, <<"fin", 1, <<8489, 10731, 6424, 241>>, -52>>>>,
    <<<<"fin", 1, <<2259, 16501, 22545, 165>>, -108>>, <<"fin", 1, <<8187, 26507, 8285, 121>>, -51>>>>,
    <<<<"fin", 1, <<29297, 9018, 6065, 158>>, -107>>, <<"fin", 1, <<19587, 30606, 26951, 243>>, -52>>>>,
    <<<<"fin", -1, <<14623, 20986, 32196, 15>>, -103>>, <<"fin", 1, <<18541, 8868, 18783, 122>>, -51>>>>,
    <<<<"fin", -1, <<29821, 17478, 14947, 237>>, -107>>, <<"fin", 1, <<26609, 23324, 15648, 246>>, -52>>>>,
    <<<<"fin", 1, <<17409, 4202, 25054, 30>>, -104>>, <<"fin", 1, <<23079, 23746, 26735, 247>>, -52>>>>,
    <<<<"fin", 1, <<30105, 17321, 22313, 80>>, -106>>, <<"fin", 1, <<14999, 28375, 5292, 249>>, -52>>>>,
    <<<<"fin", 1, <<17143, 12753, 18770, 105>>, -106>>, <<"fin", 1, <<14613, 13019, 29959, 3>>, -46>>>>,
    <<<<"fin", -1, <<25581, 18551, 24299, 241>>, -107>>, <<"fin", 1, <<12165, 22222, 31741, 62>>, -50>>>>,
    <<<<"fin", 1, <<19869, 6947, 9453, 188>>, -108>>, <<"fin", 1, <<21019, 24679, 21472, 31>>, -49>>>>,
    <<<<"fin", 1, <<19593, 705, 5893, 152>>, -110>>, <<"fin", 1, <<29169, 22302, 20232, 254>>, -52>>>>
    >>

\* log_inline: <<y, tail>> with log(a) = y + tail, for a finite a > 0.
\* p = log1p(r) - r - A[0] * r * r
PowLogP(r, ar2) ==
    Fma(ar2, Fma(Fma(r, PowLogA[7], PowLogA[6]), ar2, Fma(r, PowLogA[5], PowLogA[4])),
        Fma(r, PowLogA[3], PowLogA[2]))

\* y = hi + lo; *tail = hi - y + lo
PowLogSplit(hi, lo, y) == Strict(y, <<y, Add(Sub(hi, y), lo)>>)

PowLogPair(hi, lo) == Strict(lo, PowLogSplit(hi, lo, Add(hi, lo)))

\* lo = lo1 + lo2 + lo3 + lo4 + p, with lo3 = fma(ar, r, -ar2) and
\* lo4 = t2 - hi + ar2; lo12 is lo1 + lo2 and ar3 = r * ar2
PowLogHi(r, lo12, ar, ar2, t2, hi) ==
    Strict(hi,
        PowLogPair(hi,
            Fma(Mul(r, ar2), PowLogP(r, ar2),
                Add(Add(lo12, Fma(ar, r, Neg(ar2))), Add(Sub(t2, hi), ar2)))))

\* hi = t2 + ar2
PowLogAr2(r, lo12, ar, ar2, t2) ==
    Strict(ar2, PowLogHi(r, lo12, ar, ar2, t2, Add(t2, ar2)))

\* ar = A[0] * r; ar2 = r * ar
PowLogAr(r, lo12, ar, t2) == Strict(<<lo12, ar>>, PowLogAr2(r, lo12, ar, Mul(r, ar), t2))

\* lo2 = t1 - t2 + r
PowLogT2(r, t1, lo1, t2) ==
    Strict(t2, PowLogAr(r, Add(lo1, Add(Sub(t1, t2), r)), Mul(PowLogA[1], r), t2))

\* t2 = t1 + r
PowLogSeries(r, t1, lo1) == Strict(<<r, t1, lo1>>, PowLogT2(r, t1, lo1, Add(t1, r)))

\* r = fma(z, invc, -1.0); t1 = kd * Ln2hi + logc; lo1 = kd * Ln2lo + logctail
\* (each compiled to one fused multiply-add)
PowLogReduce(z, kd, T) ==
    PowLogSeries(Fma(z, T[1], Num(-1)), Fma(kd, Ln2[1], T[2]), Fma(kd, Ln2[2], T[3]))

log_inline(a) ==
    PowLogReduce(Scale2(a, -PowLogK(a)), Num(PowLogK(a)), PowLogTab[PowLogI(a) + 1])

\* specialcase, k < 0: the result may be subnormal, and is rounded once
SpecialZero(scale, y) == IF IsZero(y) THEN Zero(scale[2]) ELSE y

\* lo = one - hi + y + lo; y = (hi + lo) - one
SpecialHi(scale, y, lo, one, hi) ==
    SpecialZero(scale, Sub(Add(Add(Add(Sub(one, hi), y), lo), hi), one))

\* hi = one + y
SpecialFix(scale, y, lo, one) == SpecialHi(scale, y, lo, one, Add(one, y))

\* if (fabs (y) < 1.0): lo = scale - y + scale * tmp; the result is
\* 0x1p-1022 * y
SpecialY(scale, st, y) ==
    Mul(TwoTo(-1022),
        IF Gt(Num(1), AbsOf(y))
        THEN SpecialFix(scale, y, Add(Sub(scale, y), st),
                        IF Gt(Zero(1), y) THEN Num(-1) ELSE Num(1))
        ELSE y)

\* y = scale + scale * tmp
SpecialSum(scale, st) == Strict(st, SpecialY(scale, st, Add(scale, st)))

\* specialcase: 512 <= |x| < 1024, the exponent of scale is out of range.
\* k > 0: y = 0x1p1009 * (scale + scale * tmp) with scale lowered by 2^1009;
\* k < 0: scale is raised by 2^1022
specialcase(tmp, scale, k) ==
    IF k >= 0
    THEN Mul(TwoTo(1009),
             Fma(Scale2(scale, (k \div 128) - 1009), tmp,
                 Scale2(scale, (k \div 128) - 1009)))
    ELSE SpecialSum(Scale2(scale, (k \div 128) + 1022),
                    Mul(Scale2(scale, (k \div 128) + 1022), tmp))

\* return scale + scale * tmp (one fused multiply-add), or specialcase when
\* abstop was set to 0
ExpScale(x, k, scale, tmp) ==
    Strict(tmp,
        IF TopExp(x) < 9
        THEN Fma(tmp, Scale2(scale, k \div 128), Scale2(scale, k \div 128))
        ELSE specialcase(tmp, scale, k))

\* tmp = tail + r + r2 * (C2 + r * C3) + r2 * r2 * (C4 + r * C5), T being
\* the table entry <<tail, scale>>
ExpPoly(x, r, k, r2, T) ==
    Strict(r2,
        ExpScale(x, k, T[2],
            Fma(Fma(r, ExpC[4], ExpC[3]), Mul(r2, r2),
                Fma(Fma(r, ExpC[2], ExpC[1]), r2, Add(r, T[1])))))

\* idx = 2 * (ki % N); r2 = r * r
ExpIndex(x, r, k) == Strict(r, ExpPoly(x, r, k, Mul(r, r), ExpTab[(k % 128) + 1]))

\* r = x + kd * NegLn2hiN + kd * NegLn2loN; r += xtail
ExpReduce(x, xtail, kd) ==
    Strict(kd,
        ExpIndex(x, Add(xtail, Fma(kd, NegLn2N[2], Fma(kd, NegLn2N[1], x))), IntVal(kd)))

\* exp_inline: exp(x + xtail) for the sign bias 0.  |x| < 2^-54 gives
\* 1.0 + x, |x| >= 1024 gives 0.0 or inf; kd = z + Shift (fused with
\* z = InvLn2N * x), ki = asuint64(kd), kd -= Shift
exp_inline(x, xtail) ==
    IF IsZero(x) \/ TopExp(x) < -54 THEN Add(Num(1), x)
    ELSE IF TopExp(x) >= 10 THEN (IF x[2] = -1 THEN Zero(1) ELSE Inf(1))
    ELSE ExpReduce(x, xtail, Sub(Fma(InvLn2N, x, Shift), Shift))

\* ehi = y * hi; elo = y * lo + fma(y, hi, -ehi), for y = 3.0
PowExp(hi, lo, ehi) ==
    Strict(ehi, exp_inline(ehi, Fma(Num(3), lo, Fma(hi, Num(3), Neg(ehi)))))

PowLogged(l) == Strict(l, PowExp(l[1], l[2], Mul(Num(3), l[1])))

\* pow(a, 3.0).  A zero, an infinity or nan gives a * a, negated when a is
\* negative; for a finite a < 0 the library computes pow(-a, 3.0) with
\* the sign bit set in scale (sign_bias), which negates the result
PowSigned(s, v) == IF s = -1 THEN Neg(v) ELSE v

Cube(a) ==
    IF ~IsRegular(a) THEN a
    ELSE PowSigned(a[2], PowLogged(log_inline(AbsOf(a))))

\* ((L + 16) / 116) ** 3
LuvYCubic(L) == Cube(Div(Add(L, Num(16)), Num(116)))

\* L / CIE_K
LuvYLinear(L) == Div(L, CIE_K)

Luv_Y_ThresholdCIE_E(L) ==
    IF Gt(L, CIE_E) THEN LuvYCubic(L) ELSE LuvYLinear(L)

\* np.where(L > CIE_E * CIE_K, cubic, linear) at one element
Luv_Y(L) ==
    IF Gt(L, Mul(CIE_E, CIE_K)) THEN LuvYCubic(L) ELSE LuvYLinear(L)

\* XYZ_D50 = [0.9642, 1.0000, 0.8251]
X_r == Lit(9642, 10000)

Y_r == Lit(1, 1)

Z_r == Lit(8251, 10000)

\* X_r + 15 * Y_r + 3 * Z_r
D50_den == Add(Add(X_r, Mul(Num(15), Y_r)), Mul(Num(3), Z_r))

\* Y = np.where(...) over the array L
Luv_Ys(L) == Arr(L.shape, [k \in 1..Len(L.data) |-> Luv_Y(L.data[k])])

\* the statements after Y (they are evaluated in their order)
Luv_XZ(L, u, v, Y) ==
    LET u0 == Div(Mul(Num(4), X_r), D50_den)
        v0 == Div(Mul(Num(9), Y_r), D50_den)
        a  == MapL(Mul, Div(Num(1), Num(3)),
                   MapR(Sub,
                        Map2(Div, MapL(Mul, Num(52), L),
                             Map2(Add, u, MapR(Mul, MapL(Mul, Num(13), L), u0))),
                        Num(1)))
        b  == MapL(Mul, Num(-5), Y)
        c  == Div(Num(-1), Num(3))
        d  == Map2(Mul, Y,
                   MapR(Sub,
                        Map2(Div, MapL(Mul, Num(39), L),
                             Map2(Add, v, MapR(Mul, MapL(Mul, Num(13), L), v0))),
                        Num(5)))
        X  == Map2(Div, Map2(Sub, d, b), MapR(Sub, a, c))
        Z  == Map2(Add, Map2(Mul, X, a), b)
    IN  Strict(<<L, u, v, Y>>, Strict(a, Strict(<<b, d>>, Strict(X, Strict(Z,
            StackLast(<<X, Y, Z>>))))))

\* L, u, v = Luv[..., 0], Luv[..., 1], Luv[..., 2]
Luv_to_XYZ(Luv) ==
    Strict(Luv, Luv_XZ(Idx(Luv, 0), Idx(Luv, 1), Idx(Luv, 2), Luv_Ys(Idx(Luv, 0))))

Luv_uv_to_xy_Swapped(uv) ==
    Strict(uv,
        LET u == Idx(uv, 1)
            v == Idx(uv, 0)
            den == MapR(Add, Map2(Sub, MapL(Mul, Num(6), u), MapL(Mul, Num(16), v)), Num(12))
            x == Map2(Div, MapL(Mul, Num(9), u), den)
            y == Map2(Div, MapL(Mul, Num(4), v), den)
        IN  StackLast(<<x, y>>))

Luv_uv_to_xy(uv) ==
    Strict(uv,
        LET u == Idx(uv, 0)
            v == Idx(uv, 1)
            den == MapR(Add, Map2(Sub, MapL(Mul, Num(6), u), MapL(Mul, Num(16), v)), Num(12))
            x == Map2(Div, MapL(Mul, Num(9), u), den)
            y == Map2(Div, MapL(Mul, Num(4), v), den)
        IN  StackLast(<<x, y>>))

(* ----------------- the optional dependency `colour` -------------------- *)
\* The value an operation of the external package returns is not computed
\* here: it is the pair of the operation's name and its arguments.
External(fn, args) == <<fn, args>>

\* c is TRUE iff 'colour' is in globals()
check_colour(c) == IF ~c THEN Raise("ImportError") ELSE Ok(None)

\* evaluating the name `colour` when the import failed: the global is
\* unbound and Python raises NameError
UseColour(c, fn, args) == IF ~c THEN Raise("NameError") ELSE Ok(External(fn, args))

\* outcome r, or what `next` gives when r raised nothing
Then(r, next) == IF r.exc # "none" THEN r ELSE next

(* ------------------------------ Spectrum ------------------------------- *)
\* a Spectrum is the pair <<wavelengths, values>> of two sequences
\* np.searchsorted(a, v), side='left', on an ascending a: the number of
\* entries below v
searchsorted(a, v) == Cardinality({i \in 1..Len(a) : a[i] < v})

\* the largest of finite and infinite values: the reduction runs from the
\* first entry on and keeps the value it has unless the next is greater
RECURSIVE Largest(_)
Largest(vs) ==
    IF Len(vs) = 1 THEN vs[1]
    ELSE LET m == Largest(SubSeq(vs, 1, Len(vs) - 1))
         IN  IF Gt(vs[Len(vs)], m) THEN vs[Len(vs)] ELSE m

\* ndarray.max(): nan as soon as one entry is nan
MaxOf(vs) ==
    IF \E i \in 1..Len(vs) : IsNaN(vs[i]) THEN NaN ELSE Largest(vs)

\* vals[low:high].max() raises ValueError on an empty slice
normalize_spectrum(spectrum) ==
    LET wvl  == spectrum[1]
        vals == spectrum[2]
        low  == searchsorted(wvl, 400)
        high == searchsorted(wvl, 700)
        vis  == SubSeq(vals, low + 1, high)
    IN  IF vis = <<>> THEN Raise("ValueError")
        ELSE Ok(<<wvl, [k \in 1..Len(vals) |-> Div(vals[k], MaxOf(vis))]>>)

spd_from_spectrum(c, spectrum) ==
    UseColour(c, "colour.SpectralPowerDistribution", spectrum)

(* ------------------------------- CIEXYZ -------------------------------- *)
\* a CIEXYZ object is the triple <<x, y, z>> of its fields
CIEXYZ_to_xy(c, self) ==
    Then(check_colour(c), UseColour(c, "colour.XYZ_to_xy", self))

CIEXYZ_from_spectrum(c, spectrum) ==
    LET n == normalize_spectrum(spectrum)
    IN  Then(check_colour(c),
        Then(n,
        Then(spd_from_spectrum(c, n.val),
             Ok(<<External("colour.spectral_to_XYZ[0]", n.val),
                  External("colour.spectral_to_XYZ[1]", n.val),
                  External("colour.spectral_to_XYZ[2]", n.val)>>))))

(* ------------------------------- CIELUV -------------------------------- *)
\* a CIELUV object is the triple <<u, v, l>> of its fields
CIELUV_to_uv(c, self) ==
    UseColour(c, "colour.Luv_to_uv", <<self[3], self[1], self[2]>>)

AllNone(x, y, z) == x = None /\ y = None /\ z = None

\* the coordinates given to colour.XYZ_to_Luv
from_XYZ_coords(ciexyz, x, y, z) ==
    IF ciexyz # None THEN ciexyz ELSE <<x, y, z>>

from_XYZ_rejects_AnyNone(ciexyz, x, y, z) ==
    ciexyz = None /\ (x = None \/ y = None \/ z = None)

\* raise ValueError('all values are None')
from_XYZ_rejects(ciexyz, x, y, z) == ciexyz = None /\ AllNone(x, y, z)

CIELUV_from_XYZ(c, ciexyz, x, y, z) ==
    IF from_XYZ_rejects(ciexyz, x, y, z) THEN Raise("ValueError")
    ELSE UseColour(c, "colour.XYZ_to_Luv", from_XYZ_coords(ciexyz, x, y, z))

CIELUV_from_spectrum(c, spectrum) ==
    LET xyz == CIEXYZ_from_spectrum(c, spectrum)
    IN  Then(xyz, CIELUV_from_XYZ(c, xyz.val, None, None, None))

(* ---------------------------- cie_1976_plot ---------------------------- *)
\* The colours of lines 265-282, as the statements compute them.  The
\* ValueError of line 260 keeps a call from reaching them (cie_1976_plot
\* below); they state what the diagram drawn would hold.
\* np.linspace(lim[0], lim[1], n): entry i is i * step + start for the
\* rounded step = (stop - start) / (n - 1), or (i / (n - 1)) * (stop - start)
\* + start when the step is zero; the last entry is set to stop
linspace(lim, n) ==
    LET start == lim[1]
        stop  == lim[2]
        delta == Sub(stop, start)
        step  == Div(delta, Num(n - 1))
    IN  Arr(<<n>>, [i \in 1..n |->
            IF n > 1 /\ i = n THEN stop
            ELSE IF n = 1 THEN Add(Mul(Num(i - 1), delta), start)
            ELSE IF IsZero(step) THEN Add(Mul(Div(Num(i - 1), Num(n - 1)), delta), start)
            ELSE Add(Mul(Num(i - 1), step), start)])

\* uu, vv = np.meshgrid(u, v); uu[mask] = nan; vv[mask] = nan;
\* np.stack((uu, vv), axis=2).  mask is the set of row-major positions
\* where the spectral-locus mask is 0
uv_grid(xlim, ylim, samples, mask) ==
    LET u  == linspace(xlim, samples)
        v  == linspace(ylim, samples)
        n  == samples * samples
        uu == Arr(<<samples, samples>>,
                  [k \in 1..n |-> IF k \in mask THEN NaN
                                  ELSE u.data[((k - 1) % samples) + 1]])
        vv == Arr(<<samples, samples>>,
                  [k \in 1..n |-> IF k \in mask THEN NaN
                                  ELSE v.data[((k - 1) \div samples) + 1]])
    IN  StackLast(<<uu, vv>>)

\* map -> xy -> XYZ -> sRGB
cie_1976_colors(xlim, ylim, samples, mask) ==
    External("colour.XYZ_to_sRGB",
             xy_to_XYZ(Luv_uv_to_xy(uv_grid(xlim, ylim, samples, mask))))

(* ------------------------ figures and axes ---------------------------- *)
\* A figure has one axis and both carry the same number k: the handle of
\* either is <<k>>.  axes[k] is the state of axis k: what was drawn on it,
\* in drawing order, and the limits and labels set.
NewAxis == [artists |-> <<>>, xlim |-> None, ylim |-> None,
            xlabel |-> "", ylabel |-> ""]

\* share_fig_ax(fig, ax): the pair <<fig, ax>> to draw on, nAxes being the
\* number of axes that exist: a new figure and its axis when neither is
\* given, the axis of the figure when only the figure is given, and the
\* pair as it is when the axis is given
share_fig_ax(fig, ax, nAxes) ==
    IF fig = None /\ ax = None THEN <<(<<nAxes + 1>>), (<<nAxes + 1>>)>>
    ELSE IF ax = None THEN <<fig, fig>>
    ELSE <<fig, ax>>

\* the axes after share_fig_ax(fig, ax)
share_fig_ax_axes(fig, ax, axs) ==
    IF fig = None /\ ax = None THEN Append(axs, NewAxis) ELSE axs

\* ax.plot(x, y); ax.set(xlim=.., xlabel=.., ylim=.., ylabel=..) on the
\* state A of an axis: a limit given as None is left as it is
Spectrum_plot_axis(A, self, xrange, yrange) ==
    [artists |-> Append(A.artists, <<"line", self[1], self[2]>>),
     xlim    |-> IF xrange = None THEN A.xlim ELSE xrange,
     ylim    |-> IF yrange = None THEN A.ylim ELSE yrange,
     xlabel  |-> "Wavelength $\\lambda$ [nm]",
     ylabel  |-> "Transmission [%]"]

\* np.arange(lo, hi, step) for a step that divides hi - lo
arange(lo, hi, step) == [i \in 1..((hi - lo) \div step) |-> lo + step * (i - 1)]

\* colour.wavelength_to_XYZ(wvl): one (X, Y, Z) per wavelength, an array of
\* shape (len(wvl), 3).  The tristimulus values are those of the package
\* and are not computed here: every one stands as 1.
wavelength_to_XYZ(wvl) ==
    Arr(<<Len(wvl), 3>>, [k \in 1..(3 * Len(wvl)) |-> Num(1)])

\* `wvl_u, wvl_v = XYZ_to_uv(wvl_XYZ)` (line 260) unpacks the LEADING axis
\* of the (30, 2) array: 30 rows for 2 names is a ValueError.  Had it 2
\* rows, lines 261-282 would compute `colors`, which no statement uses, and
\* the call would return the pair of share_fig_ax.
cie_1976_plot(c, fig, ax, nAxes) ==
    IF ~c THEN Raise("NameError")
    ELSE LET wvl == arange(400, 700, 10)
             uv  == XYZ_to_uv(wavelength_to_XYZ(wvl))
         IN  IF uv.shape[1] # 2 THEN Raise("ValueError")
             ELSE Ok(share_fig_ax(fig, ax, nAxes))

(* ------------------------- util (prysm.util) --------------------------- *)
WindowNames == {"flat", "hanning", "hamming", "bartlett", "blackman"}

smooth_AcceptsLongWindow(x, window_len, window) ==
    IF Rank(x) = 2 THEN Raise("ValueError")
    ELSE IF window \notin WindowNames THEN Raise("ValueError")
    ELSE Ok(External("convolve", <<x, window_len, window>>))

\* smooth(x, window_len, window): the three rejections; the convolution
\* itself is not computed
smooth(x, window_len, window) ==
    IF Rank(x) = 2 THEN Raise("ValueError")
    ELSE IF window \notin WindowNames THEN Raise("ValueError")
    ELSE IF window_len > x.shape[1] THEN Raise("ValueError")
    ELSE Ok(External("convolve", <<x, window_len, window>>))

\* insert the pair p into the sequence ps of pairs, ascending in the first
\* entry, behind the pairs of the same first entry
RECURSIVE InsertPair(_, _)
InsertPair(p, ps) ==
    IF ps = <<>> THEN <<p>>
    ELSE IF p[1] < Head(ps)[1] THEN <<p>> \o ps
    ELSE <<Head(ps)>> \o InsertPair(p, Tail(ps))

RECURSIVE SortPairs(_)
SortPairs(ps) ==
    IF ps = <<>> THEN <<>>
    ELSE InsertPair(ps[Len(ps)], SortPairs(Front(ps)))

Reverse(q) == [i \in 1..Len(q) |-> q[Len(q) + 1 - i]]

Unzip(ps) == <<[i \in 1..Len(ps) |-> ps[i][1]], [i \in 1..Len(ps) |-> ps[i][2]]>>

sort_xy_Descending(x, y) ==
    Ok(Unzip(Reverse(SortPairs([i \in 1..Len(x) |-> <<x[i], y[i]>>]))))

\* sort_xy(x, y): the pairs (x[i], y[i]) sorted by x, as two tuples
sort_xy(x, y) ==
    Ok(Unzip(SortPairs([i \in 1..Len(x) |-> <<x[i], y[i]>>])))

(* ------------------------------ inputs --------------------------------- *)
\* the input numbers: the doubles n / 2^k, and -0.0
Vals ==
    {Lit(n, Pow2(k)) : n \in -MaxVal..MaxVal, k \in 0..(MaxDen - 1)} \cup {Zero(-1)}

\* the third component of a point: zero, one and the lowest input number
Thirds == {Num(0), Num(1), Num(-MaxVal)}

\* points outside the ordinary magnitudes: X + Y rounds to Y and the
\* computed sum (X + Y) + Z is 0.0 while X + Y + Z is 2^-60; every sum
\* overflows; and a point whose components are not dyadic
HardPoints3 ==
    {Arr(<<3>>, <<TwoTo(-60), Num(1), Num(-1)>>),
     Arr(<<3>>, <<TwoTo(1023), TwoTo(1023), TwoTo(1023)>>),
     Arr(<<3>>, <<Lit(1, 10), Lit(1, 3), Lit(1, 7)>>)}

\* one point: an array of shape (3,)
Points3 ==
    {Arr(<<3>>, <<a, b, c>>) : a \in Vals, b \in Vals, c \in Thirds} \cup HardPoints3

\* rows of the batches: a regular point, the origin, and points whose
\* X+Y+Z or X+15Y+3Z vanishes with a nonzero numerator
BatchRows == << <<Num(1), Num(2), Num(3)>>, <<Num(0), Num(0), Num(0)>>,
               <<Num(1), Num(-1), Num(0)>>, <<Num(3), Num(0), Num(-1)>> >>

RECURSIVE Flatten(_)
Flatten(rows) == IF rows = <<>> THEN <<>> ELSE Head(rows) \o Flatten(Tail(rows))

\* n consecutive rows of the cycle rows, from row j on
Cycle(rows, j, n) == [i \in 1..n |-> rows[((j + i - 2) % Len(rows)) + 1]]

\* a batch: an array of shape (N,3)
Batches3 ==
    {Arr(<<n, 3>>, Flatten(Cycle(BatchRows, j, n))) :
        n \in 1..MaxBatch, j \in 1..Len(BatchRows)}

\* chromaticities outside the ordinary magnitudes: X + 15 Y + 3 Z is
\* computed as 0.0 while -2x + 12y + 3 is 12 * 2^-60; x / y overflows; and
\* a chromaticity whose coordinates are not dyadic
HardPoints2 ==
    {Arr(<<2>>, <<Lit(3, 2), TwoTo(-60)>>),
     Arr(<<2>>, <<TwoTo(664), TwoTo(-664)>>),
     Arr(<<2>>, <<Lit(1, 10), Lit(1, 3)>>)}

\* one chromaticity: an array of shape (2,)
Points2 == {Arr(<<2>>, <<a, b>>) : a \in Vals, b \in Vals} \cup HardPoints2

BatchRows2 == << <<Lit(1, 4), Lit(1, 4)>>, <<Num(0), Num(0)>>,
                <<Lit(3, 2), Num(0)>>, <<Lit(1, 2), Lit(1, 4)>> >>

\* a batch of chromaticities: an array of shape (N,2)
Batches2 ==
    {Arr(<<n, 2>>, Flatten(Cycle(BatchRows2, j, n))) :
        n \in 1..MaxBatch, j \in 1..Len(BatchRows2)}

\* the lightness 95.23388463253731: pow returns 0.8817335083436334 for it,
\* the double below the one nearest to the cube
LInexact == <<"fin", 1, <<29241, 28287, 15327, 190>>, -46>>

\* lightness values: the input numbers, the same around the threshold 8,
\* and LInexact
LVals == Vals \cup {Add(v, Num(8)) : v \in Vals} \cup {LInexact}

PointsLuv == {Arr(<<3>>, <<L, u, v>>) : L \in LVals, u \in {Num(0), Num(1)}, v \in {Num(0), Num(1)}}

\* a field or an argument of the colour classes: None or a number
Coords == {None} \cup {Num(n) : n \in 0..1}

Triples == {<<a, b, c>> : a \in Coords, b \in Coords, c \in Coords}

\* sample wavelengths [nm]: outside, at the ends of and inside 400-700
WavelengthGrid == {390, 400, 550, 700, 710}

\* spectra with 1..MaxLen samples at strictly ascending wavelengths
Spectra ==
    UNION { {<<w, v>> : w \in {f \in [1..n -> WavelengthGrid] :
                                   \A i \in 1..(n - 1) : f[i] < f[i + 1]},
                        v \in [1..n -> {Num(k) : k \in 0..MaxSpecVal}]}
            : n \in 1..MaxLen }

\* the default xlim=(0, 0.7)
XLim == <<Num(0), Lit(7, 10)>>

\* the masks the spectral locus may give on a grid of n points: the first
\* k points in row-major order lie outside it
Masks(n) == {1..k : k \in 0..n}

\* the spectra plotted: a peak of height 1..MaxSpecVal at 550 nm
PlotSpectra ==
    {<<(<<400, 550, 700>>), (<<Num(0), Num(v), Num(0)>>)>> : v \in 1..MaxSpecVal}

\* the <<fig, ax>> handed to a plotting call: nothing, a figure that
\* exists, or the pair an earlier call returned
Handles(axs) ==
    {<<None, None>>} \cup {<<(<<k>>), None>> : k \in 1..Len(axs)}
                     \cup {<<(<<k>>), (<<k>>)>> : k \in 1..Len(axs)}

\* arrays given to smooth: 1-d and 2-d arrays of ones
SmoothArrays ==
    {Arr(<<n>>, [k \in 1..n |-> Num(1)]) : n \in 1..MaxLen}
    \cup {Arr(<<n, m>>, [k \in 1..(n * m) |-> Num(1)]) : n \in 1..MaxLen, m \in 1..MaxLen}

\* paired arrays given to sort_xy: x over 0..MaxVal, y over 0..1
PairedArrays ==
    UNION { {<<x, y>> : x \in [1..n -> 0..MaxVal], y \in [1..n -> 0..1]}
            : n \in 1..MaxLen }

(* ------------------------------- state --------------------------------- *)
VARIABLES
    axes,     \* axes[k]: the state of matplotlib axis k
    colour,   \* TRUE iff `import colour` bound the module global (lines 6-10)
    pc,       \* "idle" or "returned"
    op,       \* the operation called
    arg,      \* its input
    res       \* its outcome

vars == <<colour, axes, pc, op, arg, res>>

Init ==
    /\ colour \in BOOLEAN
    /\ axes = <<>>
    /\ pc = "idle"
    /\ op = "none"
    /\ arg = None
    /\ res = Ok(None)

Call(name, a, r) ==
    /\ pc' = "returned"
    /\ op' = name
    /\ arg' = a
    /\ res' = r

CallXYZ_to_xyY ==
    /\ pc = "idle"
    /\ \E XYZ \in Points3 \cup Batches3 : Call("XYZ_to_xyY", XYZ, Ok(XYZ_to_xyY(XYZ)))
    /\ UNCHANGED <<colour, axes>>

CallXYZ_to_xy ==
    /\ pc = "idle"
    /\ \E XYZ \in Points3 \cup Batches3 : Call("XYZ_to_xy", XYZ, XYZ_to_xy(XYZ))
    /\ UNCHANGED <<colour, axes>>

CallXYZ_to_uv ==
    /\ pc = "idle"
    /\ \E XYZ \in Points3 \cup Batches3 : Call("XYZ_to_uv", XYZ, Ok(XYZ_to_uv(XYZ)))
    /\ UNCHANGED <<colour, axes>>

CallxyY_to_XYZ ==
    /\ pc = "idle"
    /\ \E xyY \in Points3 \cup Batches3 : Call("xyY_to_XYZ", xyY, Ok(xyY_to_XYZ(xyY)))
    /\ UNCHANGED <<colour, axes>>

Callxy_to_XYZ ==
    /\ pc = "idle"
    /\ \E xy \in Points2 \cup Batches2 : Call("xy_to_XYZ", xy, Ok(xy_to_XYZ(xy)))
    /\ UNCHANGED <<colour, axes>>

CallLuv_to_XYZ ==
    /\ pc = "idle"
    /\ \E Luv \in PointsLuv : Call("Luv_to_XYZ", Luv, Ok(Luv_to_XYZ(Luv)))
    /\ UNCHANGED <<colour, axes>>

CallLuv_uv_to_xy ==
    /\ pc = "idle"
    /\ \E uv \in Points2 \cup Batches2 : Call("Luv_uv_to_xy", uv, Ok(Luv_uv_to_xy(uv)))
    /\ UNCHANGED <<colour, axes>>

\* a caller chaining xy -> XYZ -> u'v' -> xy
Callxy_roundtrip ==
    /\ pc = "idle"
    /\ \E xy \in Points2 \cup Batches2 :
          Call("xy_roundtrip", xy, Ok(Luv_uv_to_xy(XYZ_to_uv(xy_to_XYZ(xy)))))
    /\ UNCHANGED <<colour, axes>>

\* a caller chaining XYZ -> xyY -> XYZ
CallXYZ_roundtrip ==
    /\ pc = "idle"
    /\ \E XYZ \in Points3 \cup Batches3 :
          Call("XYZ_roundtrip", XYZ, Ok(xyY_to_XYZ(XYZ_to_xyY(XYZ))))
    /\ UNCHANGED <<colour, axes>>

Callnormalize_spectrum ==
    /\ pc = "idle"
    /\ \E sp \in Spectra : Call("normalize_spectrum", sp, normalize_spectrum(sp))
    /\ UNCHANGED <<colour, axes>>

Callspd_from_spectrum ==
    /\ pc = "idle"
    /\ \E sp \in Spectra : Call("spd_from_spectrum", sp, spd_from_spectrum(colour, sp))
    /\ UNCHANGED <<colour, axes>>

CallCIEXYZ_to_xy ==
    /\ pc = "idle"
    /\ \E self \in Triples : Call("CIEXYZ.to_xy", self, CIEXYZ_to_xy(colour, self))
    /\ UNCHANGED <<colour, axes>>

CallCIEXYZ_from_spectrum ==
    /\ pc = "idle"
    /\ \E sp \in Spectra :
          Call("CIEXYZ.from_spectrum", sp, CIEXYZ_from_spectrum(colour, sp))
    /\ UNCHANGED <<colour, axes>>

CallCIELUV_to_uv ==
    /\ pc = "idle"
    /\ \E self \in Triples : Call("CIELUV.to_uv", self, CIELUV_to_uv(colour, self))
    /\ UNCHANGED <<colour, axes>>

\* arg is <<ciexyz, x, y, z>>
CallCIELUV_from_XYZ ==
    /\ pc = "idle"
    /\ \E ciexyz \in {None} \cup Triples, xyz \in Triples :
          Call("CIELUV.from_XYZ", <<ciexyz, xyz[1], xyz[2], xyz[3]>>,
               CIELUV_from_XYZ(colour, ciexyz, xyz[1], xyz[2], xyz[3]))
    /\ UNCHANGED <<colour, axes>>

CallCIELUV_from_spectrum ==
    /\ pc = "idle"
    /\ \E sp \in Spectra :
          Call("CIELUV.from_spectrum", sp, CIELUV_from_spectrum(colour, sp))
    /\ UNCHANGED <<colour, axes>>

\* arg is <<self, xrange, yrange, fig, ax>>
CallSpectrum_plot ==
    /\ pc = "idle"
    /\ \E self \in PlotSpectra, xrange \in {None, <<Num(400), Num(700)>>},
          h \in Handles(axes) :
        LET fig    == h[1]
            ax     == h[2]
            yrange == <<Num(0), Num(100)>>
            pair   == share_fig_ax(fig, ax, Len(axes))
            axs    == share_fig_ax_axes(fig, ax, axes)
            k      == pair[2][1]
        IN  /\ (fig = None /\ ax = None) => Len(axes) < MaxFigs
            /\ Len(axs[k].artists) < MaxDraws
            /\ axes' = [axs EXCEPT ![k] = Spectrum_plot_axis(@, self, xrange, yrange)]
            /\ Call("Spectrum.plot", <<self, xrange, yrange, fig, ax>>, Ok(pair))
    /\ UNCHANGED colour

\* arg is <<xlim, ylim, samples, fig, ax>>
Callcie_1976_plot ==
    /\ pc = "idle"
    /\ \E ylim \in {None, <<Num(0), Lit(1, 2)>>}, samples \in 1..MaxSamples,
          h \in Handles(axes) :
        LET fig == h[1]
            ax  == h[2]
            r   == cie_1976_plot(colour, fig, ax, Len(axes))
        IN  /\ (r.exc = "none" /\ fig = None /\ ax = None) => Len(axes) < MaxFigs
            /\ axes' = IF r.exc = "none" THEN share_fig_ax_axes(fig, ax, axes) ELSE axes
            /\ Call("cie_1976_plot",
                    <<XLim, IF ylim = None THEN XLim ELSE ylim, samples, fig, ax>>, r)
    /\ UNCHANGED colour

\* arg is <<x, window_len, window>>
Callsmooth ==
    /\ pc = "idle"
    /\ \E x \in SmoothArrays, window_len \in 1..(MaxLen + 1),
          window \in WindowNames \cup {"foo"} :
          Call("smooth", <<x, window_len, window>>, smooth(x, window_len, window))
    /\ UNCHANGED <<colour, axes>>

Callsort_xy ==
    /\ pc = "idle"
    /\ \E a \in PairedArrays : Call("sort_xy", a, sort_xy(a[1], a[2]))
    /\ UNCHANGED <<colour, axes>>

\* the caller takes the outcome and is ready for the next call
Return ==
    /\ pc = "returned"
    /\ pc' = "idle"
    /\ op' = "none"
    /\ arg' = None
    /\ res' = Ok(None)
    /\ UNCHANGED <<colour, axes>>

\* the colour space conversions
NextConversions ==
    \/ CallXYZ_to_xyY
    \/ CallXYZ_to_xy
    \/ CallXYZ_to_uv
    \/ CallxyY_to_XYZ
    \/ Callxy_to_XYZ
    \/ CallLuv_to_XYZ
    \/ CallLuv_uv_to_xy
    \/ Callxy_roundtrip
    \/ CallXYZ_roundtrip
    \/ Return

SpecConversions == Init /\ [][NextConversions]_vars

\* the classes, the spectrum helpers and the diagram
NextColorimetry ==
    \/ Callnormalize_spectrum
    \/ Callspd_from_spectrum
    \/ CallCIEXYZ_to_xy
    \/ CallCIEXYZ_from_spectrum
    \/ CallCIELUV_to_uv
    \/ CallCIELUV_from_XYZ
    \/ CallCIELUV_from_spectrum
    \/ Callcie_1976_plot
    \/ Return

SpecColorimetry == Init /\ [][NextColorimetry]_vars

\* the plotting calls, on the figures and axes they create and share
NextPlot ==
    \/ CallSpectrum_plot
    \/ Callcie_1976_plot
    \/ Return

SpecPlot == Init /\ [][NextPlot]_vars

\* the util helpers
NextUtil ==
    \/ Callsmooth
    \/ Callsort_xy
    \/ Return

SpecUtil == Init /\ [][NextUtil]_vars

Next == NextConversions \/ NextColorimetry \/ NextPlot \/ NextUtil

Spec == Init /\ [][Next]_vars

(* ------------------------------ properties ----------------------------- *)
\* number of points of an array whose trailing axis holds the components
NPts(A) == Prod(Front(A.shape))

\* component i (1-based) of point k (1-based)
Comp(A, k, i) == A.data[(k - 1) * A.shape[Len(A.shape)] + i]

SumXYZ(A, k) == Add(Add(Comp(A, k, 1), Comp(A, k, 2)), Comp(A, k, 3))

SumUV(A, k) ==
    Add(Add(Comp(A, k, 1), Mul(Num(15), Comp(A, k, 2))), Mul(Num(3), Comp(A, k, 3)))

Returned(name) == pc = "returned" /\ op = name

\* C1 (as claimed): for every XYZ array with trailing axis X, Y, Z, of any
\* leading shape, and X+Y+Z != 0 at every point, XYZ_to_xy returns an array
\* of the same leading shape with trailing axis (X/(X+Y+Z), Y/(X+Y+Z)).
C1_XYZ_to_xy_AnyShape ==
    (Returned("XYZ_to_xy") /\ \A k \in 1..NPts(arg) : ~IsZero(SumXYZ(arg, k)))
    => /\ res.exc = "none"
       /\ res.val.shape = Front(arg.shape) \o <<2>>
       /\ \A k \in 1..NPts(arg) :
             /\ Comp(res.val, k, 1) = Div(Comp(arg, k, 1), SumXYZ(arg, k))
             /\ Comp(res.val, k, 2) = Div(Comp(arg, k, 2), SumXYZ(arg, k))

\* the denominator of the chromaticity ratios of point k in the call made
ZeroDen(k) ==
    IF op = "XYZ_to_uv" THEN IsZero(SumUV(arg, k)) ELSE IsZero(SumXYZ(arg, k))

\* the numerator of chromaticity component i (1 or 2) of point k
Numer(k, i) == Comp(arg, k, i)

\* the public operations that need the colour package
ColourOps == {"CIEXYZ.to_xy", "CIEXYZ.from_spectrum", "CIELUV.to_uv",
              "CIELUV.from_XYZ", "CIELUV.from_spectrum", "spd_from_spectrum",
              "cie_1976_plot"}

\* C2 (as claimed): without the colour package the import succeeds and
\* every public operation that needs colour fails with the ImportError of
\* check_colour, never with any other error (CIELUV.from_XYZ: when
\* coordinates are supplied).
C2_MissingColourIsImportError ==
    (pc = "returned" /\ ~colour /\ op \in ColourOps
        /\ (op = "CIELUV.from_XYZ" => ~from_XYZ_rejects(arg[1], arg[2], arg[3], arg[4])))
    => res.exc = "ImportError"

\* C3 (as claimed): XYZ_to_xyY and XYZ_to_uv never raise, and at every
\* point whose denominator is zero both chromaticity components are nan,
\* whatever X, Y, Z are.
C3_ZeroDenominatorIsNaN ==
    (pc = "returned" /\ op \in {"XYZ_to_xyY", "XYZ_to_uv"})
    => /\ res.exc = "none"
       /\ \A k \in 1..NPts(arg) :
             ZeroDen(k) => IsNaN(Comp(res.val, k, 1)) /\ IsNaN(Comp(res.val, k, 2))

\* C3 (amended): XYZ_to_xyY and XYZ_to_uv never raise and return an array
\* for the whole input; at every point whose denominator is zero a
\* chromaticity component is nan when its numerator is zero too, and the
\* infinity of the numerator's sign otherwise: never a finite number.
C3_ZeroDenominatorNotFinite ==
    (pc = "returned" /\ op \in {"XYZ_to_xyY", "XYZ_to_uv"})
    => /\ res.exc = "none"
       /\ res.val.shape =
            Front(arg.shape) \o <<IF op = "XYZ_to_uv" THEN 2 ELSE 3>>
       /\ \A k \in 1..NPts(arg) : \A i \in 1..2 :
             ZeroDen(k) =>
                LET c == Comp(res.val, k, i)
                IN  /\ ~IsFinite(c)
                    /\ IsNaN(c) <=> IsZero(Numer(k, i))
                    /\ IsInf(c) => c[2] = Numer(k, i)[2]

\* a batch in which one point has a zero denominator and a nonzero
\* numerator, and another point is regular
C3_Witness ==
    /\ Returned("XYZ_to_uv")
    /\ res.exc = "none"
    /\ \E k \in 1..NPts(arg) :
          ZeroDen(k) /\ IsInf(Comp(res.val, k, 1)) /\ IsNaN(Comp(res.val, k, 2))
    /\ \E k \in 1..NPts(arg) : ~ZeroDen(k) /\ IsFinite(Comp(res.val, k, 1))

\* the indices of the samples in the visible band, both ends included
Visible(sp) == {i \in 1..Len(sp[1]) : 400 <= sp[1][i] /\ sp[1][i] <= 700}

\* C6 (as claimed): for a Spectrum with ascending wavelengths, a sample in
\* 400-700 nm (both ends included) and a positive largest visible value,
\* normalize_spectrum returns the same wavelengths with the values divided
\* by that largest value, so the largest returned visible value is 1.
C6_NormalizedToVisiblePeak ==
    (Returned("normalize_spectrum")
        /\ \E i \in Visible(arg) : Gt(arg[2][i], Num(0)))
    => /\ res.exc = "none"
       /\ res.val[1] = arg[1]
       /\ \E p \in Visible(arg) :
             /\ \A i \in Visible(arg) : ~Gt(arg[2][i], arg[2][p])
             /\ \A i \in 1..Len(arg[2]) : res.val[2][i] = Div(arg[2][i], arg[2][p])
       /\ \E i \in Visible(arg) : res.val[2][i] = Num(1)
       /\ \A i \in Visible(arg) : ~Gt(res.val[2][i], Num(1))

\* C7 (as claimed): with the colour package, cie_1976_plot returns a
\* (figure, axis) pair, and on return that axis holds an image built from
\* the colours computed for the sampled grid (for the mask the spectral
\* locus gives).
C7_PlotDrawsImage ==
    (Returned("cie_1976_plot") /\ colour)
    => /\ res.exc = "none"
       /\ LET A == axes[res.val[2][1]].artists
          IN  \E i \in 1..Len(A), mask \in Masks(arg[3] * arg[3]) :
                 A[i] = <<"image", cie_1976_colors(arg[1], arg[2], arg[3], mask)>>

\* C8: smooth raises ValueError, and returns nothing, for every 2-d array,
\* every window name outside flat, hanning, hamming, bartlett, blackman and
\* every window length above the length of the array.
C8_SmoothRejects ==
    Returned("smooth")
    => LET x == arg[1]
           window_len == arg[2]
           window == arg[3]
       IN  (\/ Len(x.shape) = 2
            \/ window \notin {"flat", "hanning", "hamming", "bartlett", "blackman"}
            \/ window_len > Len(x.data))
           => res = [exc |-> "ValueError", val |-> <<>>]

\* a 1-d array under a known window that is one sample too long
C8_Witness ==
    /\ Returned("smooth")
    /\ arg[1].shape = <<2>>
    /\ arg[2] = 3
    /\ arg[3] = "hanning"
    /\ res.exc = "ValueError"

Perms(n) == {f \in [1..n -> 1..n] : \A i, j \in 1..n : f[i] = f[j] => i = j}

\* C9: sort_xy(x, y) returns two tuples of the length of x and y: the x
\* values ascending, the (x, y) pairs a permutation of the input pairs; for
\* a strictly descending x both are the inputs reversed.
C9_SortXYAscendingPaired ==
    Returned("sort_xy")
    => LET x == arg[1]
           y == arg[2]
           n == Len(x)
           xx == res.val[1]
           yy == res.val[2]
       IN  /\ res.exc = "none"
           /\ Len(xx) = n /\ Len(yy) = n
           /\ \A i \in 1..(n - 1) : xx[i] <= xx[i + 1]
           /\ \E f \in Perms(n) :
                 \A i \in 1..n : xx[i] = x[f[i]] /\ yy[i] = y[f[i]]
           /\ (\A i \in 1..(n - 1) : x[i] > x[i + 1])
                => \A i \in 1..n : xx[i] = x[n + 1 - i] /\ yy[i] = y[n + 1 - i]

\* a strictly descending x of full length, returned reversed
C9_Witness ==
    /\ Returned("sort_xy")
    /\ arg[1] = <<2, 1, 0>>
    /\ arg[2] = <<0, 1, 1>>
    /\ res.val = <<(<<0, 1, 2>>), (<<1, 1, 0>>)>>

\* C10: CIELUV.from_XYZ converts the coordinates of ciexyz whenever one is
\* given, whatever x, y, z are; it raises ValueError, before any
\* conversion, when ciexyz, x, y and z are all None, and in no other case.
C10_FromXYZ ==
    Returned("CIELUV.from_XYZ")
    => LET ciexyz == arg[1]
           allNone == arg[2] = <<>> /\ arg[3] = <<>> /\ arg[4] = <<>>
       IN  /\ res.exc = "ValueError" <=> (ciexyz = <<>> /\ allNone)
           /\ res.exc = "ValueError" => res.val = <<>>
           /\ (ciexyz # <<>> /\ colour)
                => res = [exc |-> "none", val |-> <<"colour.XYZ_to_Luv", ciexyz>>]
           /\ (ciexyz = <<>> /\ ~allNone /\ colour)
                => res = [exc |-> "none",
                          val |-> <<"colour.XYZ_to_Luv", <<arg[2], arg[3], arg[4]>> >>]

\* ciexyz given together with different x, y, z: the object wins
C10_Witness ==
    /\ Returned("CIELUV.from_XYZ")
    /\ colour
    /\ arg = <<(<<Num(1), Num(0), Num(1)>>), Num(0), <<>>, Num(0)>>
    /\ res.val = <<"colour.XYZ_to_Luv", <<Num(1), Num(0), Num(1)>> >>

\* 10^-12
Tolerance == Mul(Lit(1, 1000000), Lit(1, 1000000))

\* a is b up to the rounding of a few double operations:
\* |a - b| <= 10^-12 * (1 + |b|)
Close(a, b) ==
    /\ IsFinite(a)
    /\ ~Gt(AbsOf(Sub(a, b)), Mul(Tolerance, Add(Num(1), AbsOf(b))))

\* the double nearest to the real number a^3 (ties to the even significand)
CubeNearest(a) ==
    IF ~IsFinite(a) THEN a
    ELSE Round(a[2], NatMul(NatMul(a[3], a[3]), a[3]), 3 * a[4], FALSE)

\* Y is the branch of L, near the real value of the branch, and both
\* branches are the double 216/24389 at L = 8; cubic and linear are the
\* doubles ((L+16)/116)**3 and L/CIE_K
C4_Branches(L, Y, cubic, linear) ==
    /\ Gt(L, Num(8))
         => /\ Y = cubic
            /\ Close(Y, Div(CubeNearest(Add(L, Num(16))), Num(116 * 116 * 116)))
    /\ ~Gt(L, Num(8))
         => /\ Y = linear
            /\ Close(Y, Div(Mul(Num(27), L), Num(24389)))
    /\ L = Num(8) => cubic = Lit(216, 24389) /\ linear = Lit(216, 24389)
    /\ L = LInexact => Y # CubeNearest(Div(Add(L, Num(16)), Num(116)))

\* C4: Luv_to_XYZ returns (X, Y, Z) at every point (L, u, v); its Y is
\* ((L+16)/116)^3 when L > 8 and 27 L / 24389 otherwise (the doubles
\* ((L+16)/116)**3, with the library's pow, and L/CIE_K, which are these
\* values up to rounding: pow does not always return the nearest double,
\* as at LInexact), whatever u and v are; the threshold CIE_E * CIE_K is
\* the double 8, and at L = 8 both branches give the double 216/24389.
C4_Luv_Y_Piecewise ==
    Returned("Luv_to_XYZ")
    => /\ res.exc = "none"
       /\ res.val.shape = <<3>>
       /\ Mul(CIE_E, CIE_K) = Num(8)
       /\ C4_Branches(Comp(arg, 1, 1), Comp(res.val, 1, 2),
                      LuvYCubic(Comp(arg, 1, 1)), LuvYLinear(Comp(arg, 1, 1)))

\* a call at the threshold itself, with nonzero u and v, and finite X and Z
C4_Witness ==
    /\ Returned("Luv_to_XYZ")
    /\ arg = Arr(<<3>>, <<Num(8), Num(1), Num(1)>>)
    /\ Comp(res.val, 1, 2) = Lit(216, 24389)
    /\ IsFinite(Comp(res.val, 1, 1)) /\ ~IsZero(Comp(res.val, 1, 1))
    /\ IsFinite(Comp(res.val, 1, 3)) /\ ~IsZero(Comp(res.val, 1, 3))

\* (r + c) * 2^E = 0, for the signed sum r = <<sign, magnitude>>
ExactZeroWith(r, c, E) == SignedSum(r[1], r[2], c[2], NatShl(c[3], c[4] - E))[2] = <<>>

\* a + b + c = 0 as real numbers, for finite a, b, c that are multiples
\* of 2^E (their significands may have more than 53 bits)
ExactZeroAt(a, b, c, E) ==
    ExactZeroWith(SignedSum(a[2], NatShl(a[3], a[4] - E), b[2], NatShl(b[3], b[4] - E)), c, E)

Least(i, j, k) == IF i <= j /\ i <= k THEN i ELSE IF j <= k THEN j ELSE k

ExactZero3(a, b, c) == ExactZeroAt(a, b, c, Least(a[4], b[4], c[4]))

\* the points of the round trip xy -> XYZ -> u'v' -> xy that C5 is about:
\* y != 0 and -2x + 12y + 3 != 0, as real numbers
C5_Regular(k) ==
    LET x == Comp(arg, k, 1)
        y == Comp(arg, k, 2)
    IN  /\ ~IsZero(y)
        /\ ~ExactZero3(<<"fin", -x[2], x[3], x[4] + 1>>,
                       <<"fin", y[2], NatMul(<<12>>, y[3]), y[4]>>, Num(3))

\* C5 (as claimed): for every chromaticity (x, y) with y != 0 and
\* -2x + 12y + 3 != 0, Luv_uv_to_xy(XYZ_to_uv(xy_to_XYZ((x, y)))) equals
\* (x, y): the doubles returned are the doubles given.
C5_uv_xy_RoundTrip ==
    Returned("xy_roundtrip")
    => /\ res.exc = "none"
       /\ res.val.shape = arg.shape
       /\ \A k \in 1..NPts(arg) :
             C5_Regular(k)
             => /\ Comp(res.val, k, 1) = Comp(arg, k, 1)
                /\ Comp(res.val, k, 2) = Comp(arg, k, 2)

\* 1/4 <= |a| <= 4
Ordinary(a) ==
    IsFinite(a) /\ ~Gt(AbsOf(a), Num(4)) /\ ~Gt(Lit(1, 4), AbsOf(a))

\* the chromaticities of ordinary magnitude, away from the lines y = 0 and
\* -2x + 12y + 3 = 0: |x| <= 4, 1/4 <= |y| <= 4, and the double
\* (-2 * x + 12 * y) + 3 is at least 1 in magnitude
C5_InRange(k) ==
    LET x == Comp(arg, k, 1)
        y == Comp(arg, k, 2)
    IN  /\ IsFinite(x) /\ ~Gt(AbsOf(x), Num(4))
        /\ Ordinary(y)
        /\ ~Gt(Num(1), AbsOf(Add(Add(Mul(Num(-2), x), Mul(Num(12), y)), Num(3))))

\* C5 (amended): the round trip raises nothing and returns an array of the
\* shape given; for every chromaticity (x, y) with |x| <= 4,
\* 1/4 <= |y| <= 4 and |-2x + 12y + 3| >= 1 it returns (x, y) up to the
\* rounding of the double operations: each coordinate returned is finite
\* and within 10^-12 * (1 + |c|) of the coordinate c given.  (Outside that
\* range the result need not be near (x, y), nor finite: at
\* (3/2, 2^-60) the computed X + 15 Y + 3 Z is 0.0, and x / y overflows at
\* (2^664, 2^-664); both give (nan, nan).)
C5_uv_xy_RoundTripUpToRounding ==
    Returned("xy_roundtrip")
    => /\ res.exc = "none"
       /\ res.val.shape = arg.shape
       /\ arg \in HardPoints2 \ {Arr(<<2>>, <<Lit(1, 10), Lit(1, 3)>>)}
             => IsNaN(Comp(res.val, 1, 1)) /\ IsNaN(Comp(res.val, 1, 2))
       /\ \A k \in 1..NPts(arg) :
             C5_InRange(k)
             => /\ Close(Comp(res.val, k, 1), Comp(arg, k, 1))
                /\ Close(Comp(res.val, k, 2), Comp(arg, k, 2))

\* a round trip of a chromaticity off both axes that returns another
\* double than the one given, within the tolerance
C5_Witness ==
    /\ Returned("xy_roundtrip")
    /\ arg = Arr(<<2>>, <<Num(-3), Num(-3)>>)
    /\ Comp(res.val, 1, 1) # Num(-3)
    /\ Close(Comp(res.val, 1, 1), Num(-3))
    /\ Close(Comp(res.val, 1, 2), Num(-3))

\* the points of the round trip XYZ -> xyY -> XYZ that C11 is about:
\* X + Y + Z != 0, as real numbers, and Y != 0
C11_Regular(k) ==
    /\ ~ExactZero3(Comp(arg, k, 1), Comp(arg, k, 2), Comp(arg, k, 3))
    /\ ~IsZero(Comp(arg, k, 2))

\* xy_to_XYZ((x, y)) is (x/y, 1, (1-x-y)/y) wherever y != 0
C11_xy_to_XYZ ==
    Returned("xy_to_XYZ")
    => /\ res.exc = "none"
       /\ res.val.shape = Front(arg.shape) \o <<3>>
       /\ \A k \in 1..NPts(arg) :
             LET x == Comp(arg, k, 1)
                 y == Comp(arg, k, 2)
             IN  ~IsZero(y)
                 => /\ Comp(res.val, k, 1) = Div(x, y)
                    /\ Comp(res.val, k, 2) = Num(1)
                    /\ Comp(res.val, k, 3) = Div(Sub(Sub(Num(1), x), y), y)

\* C11 (as claimed): XYZ_to_xyY and xyY_to_XYZ are inverse: for every point
\* (X, Y, Z) with X+Y+Z != 0 and Y != 0, xyY_to_XYZ(XYZ_to_xyY((X, Y, Z)))
\* equals (X, Y, Z), the doubles returned being the doubles given; and for
\* every chromaticity (x, y) with y != 0, xy_to_XYZ((x, y)) is the point
\* with Y = 1, X = x/y, Z = (1-x-y)/y.
C11_xyY_XYZ_Inverse ==
    /\ Returned("XYZ_roundtrip")
        => /\ res.exc = "none"
           /\ res.val.shape = arg.shape
           /\ \A k \in 1..NPts(arg) :
                 C11_Regular(k)
                 => \A i \in 1..3 : Comp(res.val, k, i) = Comp(arg, k, i)
    /\ C11_xy_to_XYZ

\* the points of ordinary magnitude, away from the planes X + Y + Z = 0
\* and Y = 0: |X| <= 4, 1/4 <= |Y| <= 4, |Z| <= 4, and the double
\* (X + Y) + Z is at least 1/4 in magnitude
C11_InRange(k) ==
    /\ IsFinite(Comp(arg, k, 1)) /\ ~Gt(AbsOf(Comp(arg, k, 1)), Num(4))
    /\ Ordinary(Comp(arg, k, 2))
    /\ IsFinite(Comp(arg, k, 3)) /\ ~Gt(AbsOf(Comp(arg, k, 3)), Num(4))
    /\ IsFinite(SumXYZ(arg, k)) /\ ~Gt(Lit(1, 4), AbsOf(SumXYZ(arg, k)))

\* C11 (amended): the round trip raises nothing, returns an array of the
\* shape given, and returns Y as given; for every point (X, Y, Z) with
\* |X| <= 4, 1/4 <= |Y| <= 4, |Z| <= 4 and |X + Y + Z| >= 1/4 it returns
\* (X, Y, Z) up to the rounding of the double operations: X and Z returned
\* are finite and within 10^-12 * (1 + |c|) of the coordinate c given.
\* (Outside that range X and Z returned need not be near the ones given,
\* nor finite: at (2^-60, 1, -1) the computed (X + Y) + Z is 0.0 and the
\* result is (nan, 1, nan); at (2^1023, 2^1023, 2^1023) the sum overflows
\* and the result is (nan, 2^1023, inf).)  And for every chromaticity (x, y) with
\* y != 0, xy_to_XYZ((x, y)) is the point with Y = 1, X = x/y,
\* Z = (1-x-y)/y.
C11_xyY_XYZ_InverseUpToRounding ==
    /\ Returned("XYZ_roundtrip")
        => /\ res.exc = "none"
           /\ res.val.shape = arg.shape
           /\ \A k \in 1..NPts(arg) : Comp(res.val, k, 2) = Comp(arg, k, 2)
           /\ arg \in HardPoints3 \ {Arr(<<3>>, <<Lit(1, 10), Lit(1, 3), Lit(1, 7)>>)}
                 => IsNaN(Comp(res.val, 1, 1)) /\ ~IsFinite(Comp(res.val, 1, 3))
           /\ \A k \in 1..NPts(arg) :
                 C11_InRange(k)
                 => /\ \A i \in 1..3 : Close(Comp(res.val, k, i), Comp(arg, k, i))
                    /\ Comp(res.val, k, 2) = Comp(arg, k, 2)
    /\ C11_xy_to_XYZ

\* a round trip of a point through chromaticities that are not doubles,
\* which returns another Z than the one given, within the tolerance
C11_Witness ==
    /\ Returned("XYZ_roundtrip")
    /\ arg = Arr(<<3>>, <<Num(1), Num(1), Num(1)>>)
    /\ Comp(res.val, 1, 3) # Num(1)
    /\ \A i \in 1..3 : Close(Comp(res.val, 1, i), Num(1))

=============================================================================
